---- MODULE Spec2Model ----
(***************************************************************************)
(* A model of the queue front end: the realtime channel client             *)
(* (WebSocketService in services/api.ts), the Display's rebuild of its     *)
(* per-counter view model and its subscriptions, the throttled HTTP        *)
(* helpers, the session store and the login modal, and the controller's    *)
(* local queue state with its action handlers, its active counter and the  *)
(* dashboard's preview number and speech announcement.                     *)
(*                                                                         *)
(* Each part has its own specification (SpecWS, SpecRebuild, SpecThrottle, *)
(* SpecCtl, SpecPreview, SpecSession, SpecDisplay, SpecSpeech, SpecSwitch, *)
(* SpecDispSubs, SpecLogin); a specification holds the variables of the    *)
(* other parts at their initial values.                                   *)
(***************************************************************************)
EXTENDS Integers, Sequences, FiniteSets, TLC

\* null / undefined of the source, where an object is expected
NULL == [null |-> TRUE]

\* a missing (null / undefined) timestamp
NoTime == 0

(***************************************************************************)
(* State                                                                   *)
(***************************************************************************)

\* WebSocketService (services/api.ts) and the Pusher instances it constructs
VARIABLES
    pusher,      \* this.pusher: 0 (null) or the id of a Pusher instance
    channels,    \* this.channels: channel name -> 0 (no entry) or the id of the
                 \* Pusher instance whose channel object is stored
    conn,        \* per Pusher instance: "none" (not constructed), "connecting",
                 \* "connected", "disconnected" (torn down by pusher.disconnect())
    psubs,       \* per Pusher instance: the channel names it has subscribed
    bound,       \* per Pusher instance and channel: the (event, callback) pairs bound
    closures,    \* unsubscribe closures handed out and not yet called
    live,        \* history: subscriptions made whose pair was not unbound since
    unsubbed,    \* history: the unsubscribe closures that were called
    nSubs,       \* history: number of subscribe() calls
    wsLast,      \* history: the operation of the last step
    wsInvoked    \* history: the callbacks the last step invoked

wsVars == <<pusher, channels, conn, psubs, bound, closures, live, unsubbed, nSubs, wsLast, wsInvoked>>

\* the Display's view model (Display.tsx)
VARIABLES
    counterData,  \* the Display's counterData: counter id -> CounterState or NULL (no key)
    rbOp,         \* history: "none", or the rebuild applied: "bulk", "list"
    rbList,       \* history: the list given to the rebuild
    rbCid         \* history: the counter of the list update, 0 for a bulk rebuild

rbVars == <<counterData, rbOp, rbList, rbCid>>

\* the throttled HTTP helpers (services/api.ts) and lodash's throttle state
VARIABLES
    now,         \* Date.now(), in ms
    thrFn,       \* the helper observed: "listQueue" or "fetchCounters"
    thr,         \* its throttle state: lastCallTime, lastInvokeTime, timerId (the
                 \* time the pending timer is due, NoTime for none), lastArgs, result
    thrCalls,    \* history: the calls made (time, argument, the fetch whose
                 \* promise the call returned, 0 for undefined)
    thrFetches   \* history: the HTTP GETs issued (time, endpoint argument, the
                 \* call whose arguments were used)

thrVars == <<now, thrFn, thr, thrCalls, thrFetches>>

\* the controller (ControllerWrapper), the Gateway it talks to and what is in
\* flight between them
VARIABLES
    gw,                \* the Gateway's entries of the active counter: entry id ->
                       \* [status, name]; ids are assigned 1, 2, ... on add
    queue,             \* useState: the local queue, a list of [id, status, name]
    currentServing,    \* useState: NULL or [id, status, name]
    totalServedToday,  \* useState
    isQueueLoading,    \* useRef: a load is in flight or in its cool-down
    coolDown,          \* the timer that clears isQueueLoading is pending
    reloadTimers,      \* number of pending setTimeout(() => loadQueue(), ...)
    reqs,              \* the HTTP requests in flight, each with the continuation
                       \* that awaits it and, once the Gateway answered, the answer
    events,            \* realtime events broadcast and not yet delivered, oldest first
    nOps,              \* history: number of handlers the user invoked
    nOther,            \* history: number of requests of other clients
    stale,             \* history: "none", or what the last step's
                       \* updateQueueState did for an unknown id: "issued" a
                       \* list request, "dropped" (loadQueue returned at once)
    skipped,           \* history: ids whose handleSkip has run to its end
    skipOk,            \* history: ids whose Skip got success for its complete request
    isSpeaking,        \* useRef of the dashboard: an announcement is being spoken
    sent,              \* history: the action requests sent to the Gateway, in order
    invoked,           \* history: the handlers the user invoked, with what they found
    alerts,            \* history: number of alert() calls
    failures,          \* history: number of action requests whose failure came back
    spoken,            \* history: the announcements handed to the speech engine
    printed,           \* history: the tickets printTicket was invoked with
    called,            \* history: the entries the Gateway returned to Call Next
    answered           \* history: the answers the action handlers received

\* the controller's history variables that most steps leave alone
ctlLog == <<isSpeaking, sent, invoked, alerts, failures, spoken, printed, called, answered>>

ctlVars == <<gw, queue, currentServing, totalServedToday, isQueueLoading, coolDown, reloadTimers, reqs, events, nOps, nOther, stale, skipped, skipOk, ctlLog>>

\* the dashboard's view of the queue for the ticket preview, and the preview
\* number last computed from it
VARIABLES
    pvQueue,     \* the queue prop: a sequence of [queueNumber, status]
    pvOut        \* what getNextQueueNumber() returned for pvQueue

pvVars == <<pvQueue, pvOut>>

\* the session store of services/api.ts
VARIABLES
    authHeader,   \* api.defaults.headers.common["Authorization"], or NoHeader
    storedToken,  \* localStorage "auth_token", or NoToken
    sessReqs,     \* the login / logout requests awaiting their answer
    sessLast,     \* history: the session operation that returned last
    nSess         \* session operations started so far

sessVars == <<authHeader, storedToken, sessReqs, sessLast, nSess>>

\* the Display over a sequence of loads and events
VARIABLES
    latest,       \* history: per counter, the latest list given for it
    allWaiting    \* the derived list allWaitingCustomers of the last render

dispVars == <<latest, allWaiting>>

\* The dashboard's speech announcement (ControllerDashboard l. 73-108)
VARIABLES
    spSynth,           \* speechSynth.current holds an utterance object
    spBusy,            \* isSpeaking.current of the dashboard
    spEngine,          \* window.speechSynthesis: the utterances handed over and not ended
    spCalls            \* history: the speak() calls and what each did

spVars == <<spSynth, spBusy, spEngine, spCalls>>

\* The controller's active counter and its list loads (ControllerWrapper l. 1229-1262, 1331-1357, 1619-1622)
VARIABLES
    counterNumber,     \* useState: the active counter
    currentCounterRef, \* useRef: the counter loadQueue() asks for by default
    swLoading,         \* isQueueLoading.current
    swCoolDown,        \* the 1000 ms timer that clears isQueueLoading is pending
    swLoadTimer,       \* initialLoadTimeout (500 ms) is pending
    swReq,             \* the list request in flight: the counter asked for, 0 if none
    swShown,           \* the counter whose list processQueueData applied last, 0 if none
    swApplied,         \* history: each applied list, with the counter active then
    nSwitch,           \* counter changes so far
    nListEvents        \* QueueListUpdated events delivered so far

swVars == <<counterNumber, currentCounterRef, swLoading, swCoolDown, swLoadTimer, swReq, swShown, swApplied, nSwitch, nListEvents>>

\* The Display's realtime subscriptions (Display.tsx l. 32-34, 165-290)
VARIABLES
    dsMounted,         \* the Display is mounted
    allCounters,       \* useState: the counters fetched, as a set of counter records
    dsBound,           \* the Display's callbacks bound to a channel event, by effect run
    dsSubs,            \* subs.current: the unsubscribe closures collected
    dsTimer,           \* the 1 s timer pending: the effect run that set it, 0 if none
    dsTimerFetch,      \* the timer's callback awaits fetchCounters: its effect run, 0 if none
    dsInitFetch,       \* the initial load awaits fetchCounters
    dsRun              \* runs of the subscription effect so far

dsVars == <<dsMounted, allCounters, dsBound, dsSubs, dsTimer, dsTimerFetch, dsInitFetch, dsRun>>

\* The login modal (LoginModal.tsx l. 14-40)
VARIABLES
    lmLoading,         \* useState loading: an attempt awaits login()
    lmError,           \* useState error: the modal shows a failure message
    lmOpen,            \* the modal is open (isOpen, closed by onClose)
    lmRoute,           \* the view shown: "public" or "admin"
    lmLog              \* history: the attempts, what each stored and reported

lmVars == <<lmLoading, lmError, lmOpen, lmRoute, lmLog>>

vars == <<wsVars, rbVars, thrVars, ctlVars, pvVars, sessVars, dispVars, spVars, swVars, dsVars, lmVars>>

\* the variables each part leaves alone
nonWs == <<rbVars, thrVars, ctlVars, pvVars, sessVars, dispVars, spVars, swVars, dsVars, lmVars>>
nonRb == <<wsVars, thrVars, ctlVars, pvVars, sessVars, dispVars, spVars, swVars, dsVars, lmVars>>
nonThr == <<wsVars, rbVars, ctlVars, pvVars, sessVars, dispVars, spVars, swVars, dsVars, lmVars>>
nonCtl == <<wsVars, rbVars, thrVars, pvVars, sessVars, dispVars, spVars, swVars, dsVars, lmVars>>
nonPv == <<wsVars, rbVars, thrVars, ctlVars, sessVars, dispVars, spVars, swVars, dsVars, lmVars>>
nonSess == <<wsVars, rbVars, thrVars, ctlVars, pvVars, dispVars, spVars, swVars, dsVars, lmVars>>
nonDisp == <<wsVars, rbVars, thrVars, ctlVars, pvVars, sessVars, spVars, swVars, dsVars, lmVars>>

(***************************************************************************)
(* Part 1: WebSocketService (services/api.ts, second variant, l. 414-486)  *)
(***************************************************************************)

\* Bounds of the realtime client model.
MaxPushers == 2
MaxSubs == 2

PusherIds == 1..MaxPushers
ChannelNames == {"service-counters", "service-counter.1"}
EventNames == {"QueueUpdated", "QueueListUpdated"}
Callbacks == {"cbA", "cbB"}

WsInit ==
    /\ pusher = 0
    /\ channels = [c \in ChannelNames |-> 0]
    /\ conn = [p \in PusherIds |-> "none"]
    /\ psubs = [p \in PusherIds |-> {}]
    /\ bound = [p \in PusherIds |-> [c \in ChannelNames |-> {}]]
    /\ closures = {}
    /\ live = {}
    /\ unsubbed = {}
    /\ nSubs = 0
    /\ wsLast = "init"
    /\ wsInvoked = {}

\* get connected(): this.pusher?.connection.state === "connected"
connected == pusher # 0 /\ conn[pusher] = "connected"

\* Pusher instances constructed by the client and not torn down.
OpenPushers == {p \in PusherIds : conn[p] \in {"connecting", "connected"}}

\* The id the next `new Pusher(...)` gets.
FreshPusher == CHOOSE p \in PusherIds : conn[p] = "none" /\ \A q \in PusherIds : conn[q] = "none" => p <= q

CanConstruct == \E p \in PusherIds : conn[p] = "none"

\* connect(): the instance this.pusher refers to afterwards; the stored one
\* only when it exists and is connected, a new Pusher otherwise.
ConnectTarget == IF pusher # 0 /\ connected THEN pusher ELSE FreshPusher

\* conn after connect(): a new Pusher starts connecting on construction.
ConnAfterConnect == [conn EXCEPT ![ConnectTarget] = IF @ = "none" THEN "connecting" ELSE @]

ConnectEnabled == (pusher # 0 /\ connected) \/ CanConstruct

Connect ==
    /\ UNCHANGED nonWs
    /\ ConnectEnabled
    /\ pusher' = ConnectTarget
    /\ conn' = ConnAfterConnect
    /\ wsLast' = "connect"
    /\ wsInvoked' = {}
    /\ UNCHANGED <<channels, psubs, bound, closures, live, unsubbed, nSubs>>

\* what the unsubscribe closure unbinds, mutated: unbinds every callback of the event.
UnbindAllOfEvent(bs, e, cb) == {b \in bs : b[1] # e}

\* channel.unbind(eventName, callback): removes the bindings of that callback to that event.
Unbind(bs, e, cb) == bs \ {<<e, cb>>}

\* subscribe(channelName, eventName, callback)
Subscribe(c, e, cb) ==
    /\ UNCHANGED nonWs
    /\ nSubs < MaxSubs
    /\ pusher # 0 \/ CanConstruct
    /\ LET p0 == IF pusher = 0 THEN FreshPusher ELSE pusher           \* if (!this.pusher) this.connect()
           conn0 == IF pusher = 0 THEN [conn EXCEPT ![p0] = "connecting"] ELSE conn
           ch == IF channels[c] # 0 THEN channels[c] ELSE p0           \* channels.get(c) or pusher.subscribe(c)
       IN /\ pusher' = p0
          /\ conn' = conn0
          /\ channels' = [channels EXCEPT ![c] = ch]
          /\ psubs' = IF channels[c] # 0 THEN psubs ELSE [psubs EXCEPT ![p0] = @ \cup {c}]
          /\ bound' = [bound EXCEPT ![ch][c] = @ \cup {<<e, cb>>}]  \* channel.bind(eventName, callback)
          /\ closures' = closures \cup {[p |-> ch, c |-> c, e |-> e, cb |-> cb]}
          /\ live' = live \cup {[p |-> ch, c |-> c, e |-> e, cb |-> cb]}
          /\ nSubs' = nSubs + 1
          /\ wsLast' = "subscribe"
    /\ UNCHANGED unsubbed
    /\ wsInvoked' = {}

\* the unsubscribe closure returned by subscribe
Unsubscribe(k) ==
    /\ UNCHANGED nonWs
    /\ k \in closures
    /\ bound' = [bound EXCEPT ![k.p][k.c] = Unbind(@, k.e, k.cb)]
    /\ closures' = closures \ {k}
    /\ live' = live \ {k}
    /\ unsubbed' = unsubbed \cup {k}
    /\ wsLast' = "unsubscribe"
    /\ wsInvoked' = {}
    /\ UNCHANGED <<pusher, channels, conn, psubs, nSubs>>

\* disconnect()
Disconnect ==
    /\ UNCHANGED nonWs
    /\ channels' = [c \in ChannelNames |-> 0]                           \* this.channels.clear()
    /\ conn' = IF pusher # 0 THEN [conn EXCEPT ![pusher] = "disconnected"] ELSE conn
    /\ pusher' = 0
    /\ wsLast' = "disconnect"
    /\ wsInvoked' = {}
    /\ UNCHANGED <<psubs, bound, closures, live, unsubbed, nSubs>>

\* The transport (pusher-js): a connecting instance becomes connected.
TransportConnected(p) ==
    /\ UNCHANGED nonWs
    /\ conn[p] = "connecting"
    /\ conn' = [conn EXCEPT ![p] = "connected"]
    /\ wsLast' = "transport"
    /\ wsInvoked' = {}
    /\ UNCHANGED <<pusher, channels, psubs, bound, closures, live, unsubbed, nSubs>>

\* The transport: a connected instance loses its connection and reconnects by itself.
TransportDropped(p) ==
    /\ UNCHANGED nonWs
    /\ conn[p] = "connected"
    /\ conn' = [conn EXCEPT ![p] = "connecting"]
    /\ wsLast' = "transport"
    /\ wsInvoked' = {}
    /\ UNCHANGED <<pusher, channels, psubs, bound, closures, live, unsubbed, nSubs>>

\* The transport delivers event e on channel c of a connected instance: every
\* callback bound to e on that channel object is invoked.
Deliver(p, c, e) ==
    /\ UNCHANGED nonWs
    /\ conn[p] = "connected"
    /\ c \in psubs[p]
    /\ wsInvoked' = {cb \in Callbacks : <<e, cb>> \in bound[p][c]}
    /\ wsLast' = "deliver"
    /\ UNCHANGED <<pusher, channels, conn, psubs, bound, closures, live, unsubbed, nSubs>>

\* the realtime client at rest: the value of its variables in the other specifications
WsIdle == WsInit

WsNext ==
    \/ Connect
    \/ \E c \in ChannelNames, e \in EventNames, cb \in Callbacks : Subscribe(c, e, cb)
    \/ \E k \in closures : Unsubscribe(k)
    \/ Disconnect
    \/ \E p \in PusherIds : TransportConnected(p)
    \/ \E p \in PusherIds : TransportDropped(p)
    \/ \E p \in PusherIds, c \in ChannelNames, e \in EventNames : Deliver(p, c, e)


(***************************************************************************)
(* Part 2: the Display's rebuild of the per-counter view model             *)
(* (Display.tsx: processQueueListUpdate and processQueueData)              *)
(***************************************************************************)

\* Bounds of the rebuild model: the longest list given and the latest timestamp.
MaxLen == 3
MaxTime == 2

CounterIds == {1, 2}
Times == 1..MaxTime

\* A QueueItem as the Gateway sends it. Its id is its position in the list
\* (ids are distinct labels); queue_number and customer_name are copied along
\* with the id and are not modelled apart from it. created_at is always
\* present; served_at is NoTime or a time, and is read for completed items only.
ItemsOf(cids) ==
    [service_counter_id : cids, status : {"waiting", "serving"}, created_at : Times, served_at : {NoTime}]
    \cup [service_counter_id : cids, status : {"completed"}, created_at : Times, served_at : Times \cup {NoTime}]

\* the lists of n such items
ListsOf(cids, n) == [1..n -> ItemsOf(cids)]

\* CounterState before anything was put in it
EmptyCounterState == [currentServing |-> NULL, waitingQueue |-> <<>>, recentlyServed |-> <<>>, counterInfo |-> NULL]

\* const ts = item.created_at || item.timestamp || new Date().toISOString()
\* (created_at is always present in the lists modelled)
Ts(item) == item.created_at

\* the object pushed for a serving or waiting item
ViewEntry(id, item, cid) == [id |-> id, counterNumber |-> cid, timestamp |-> Ts(item), isNext |-> FALSE]

\* the object pushed for a completed item: timestamp is served_at || ts
ServedEntry(id, item, cid) ==
    [id |-> id, counterNumber |-> cid,
     timestamp |-> IF item.served_at # NoTime THEN item.served_at ELSE Ts(item), isNext |-> FALSE]

\* queues.forEach / data.forEach: one item put into a CounterState
PutItem(cs, id, item, cid) ==
    IF item.status = "serving" THEN [cs EXCEPT !.currentServing = ViewEntry(id, item, cid)]
    ELSE IF item.status = "waiting" THEN [cs EXCEPT !.waitingQueue = Append(@, ViewEntry(id, item, cid))]
    ELSE IF item.status = "completed" THEN [cs EXCEPT !.recentlyServed = Append(@, ServedEntry(id, item, cid))]
    ELSE cs

\* the stable sort of Array.prototype.sort with (a, b) => a.timestamp - b.timestamp,
\* mutated: newest first
SortAscMutant(q) ==
    LET RECURSIVE Srt(_)
        Srt(r) == IF r = <<>> THEN <<>>
                  ELSE LET x == r[Len(r)]
                           done == Srt(SubSeq(r, 1, Len(r) - 1))
                           k == Cardinality({i \in 1..Len(done) : done[i].timestamp >= x.timestamp})
                       IN SubSeq(done, 1, k) \o <<x>> \o SubSeq(done, k + 1, Len(done))
    IN Srt(q)

\* the stable sort of Array.prototype.sort with (a, b) => a.timestamp - b.timestamp
SortAsc(q) ==
    LET RECURSIVE Srt(_)
        Srt(r) == IF r = <<>> THEN <<>>
                  ELSE LET x == r[Len(r)]
                           done == Srt(SubSeq(r, 1, Len(r) - 1))
                           k == Cardinality({i \in 1..Len(done) : done[i].timestamp <= x.timestamp})
                       IN SubSeq(done, 1, k) \o <<x>> \o SubSeq(done, k + 1, Len(done))
    IN Srt(q)

\* the stable sort with (a, b) => b.timestamp - a.timestamp
SortDesc(q) ==
    LET RECURSIVE Srt(_)
        Srt(r) == IF r = <<>> THEN <<>>
                  ELSE LET x == r[Len(r)]
                           done == Srt(SubSeq(r, 1, Len(r) - 1))
                           k == Cardinality({i \in 1..Len(done) : done[i].timestamp >= x.timestamp})
                       IN SubSeq(done, 1, k) \o <<x>> \o SubSeq(done, k + 1, Len(done))
    IN Srt(q)

\* "if nothing is serving, mark first waiting as next", mutated: the last waiting
PromoteNextMutant(cs) ==
    IF cs.currentServing = NULL /\ Len(cs.waitingQueue) > 0
    THEN [cs EXCEPT !.currentServing = [cs.waitingQueue[Len(cs.waitingQueue)] EXCEPT !.isNext = TRUE]]
    ELSE cs

\* if (!currentServing && waitingQueue.length > 0) currentServing = { ...waitingQueue[0], isNext: true }
PromoteNext(cs) ==
    IF cs.currentServing = NULL /\ Len(cs.waitingQueue) > 0
    THEN [cs EXCEPT !.currentServing = [cs.waitingQueue[1] EXCEPT !.isNext = TRUE]]
    ELSE cs

\* sort waiting and recentlyServed, then promote
SortAndPromote(cs) ==
    PromoteNext([cs EXCEPT !.waitingQueue = SortAsc(@), !.recentlyServed = SortDesc(@)])

\* the items of `list` put, in list order, into cs; keep(item) selects them
RECURSIVE Populate(_, _, _, _, _)
Populate(cs, list, i, cid, bulk) ==
    IF i > Len(list) THEN cs
    ELSE Populate(IF bulk /\ list[i].service_counter_id # cid THEN cs ELSE PutItem(cs, i, list[i], cid),
                  list, i + 1, cid, bulk)

processQueueListUpdateMutant(prev, cid, queues) ==
    LET old == IF prev[cid] = NULL THEN EmptyCounterState ELSE prev[cid]
        reset == [old EXCEPT !.waitingQueue = <<>>, !.recentlyServed = <<>>]
    IN [prev EXCEPT ![cid] = SortAndPromote(Populate(reset, queues, 1, cid, FALSE))]

\* processQueueListUpdate(counterId, queues) as a function of the previous counterData
processQueueListUpdate(prev, cid, queues) ==
    LET old == IF prev[cid] = NULL THEN EmptyCounterState ELSE prev[cid]
        reset == [old EXCEPT !.currentServing = NULL, !.waitingQueue = <<>>, !.recentlyServed = <<>>]
    IN [prev EXCEPT ![cid] = SortAndPromote(Populate(reset, queues, 1, cid, FALSE))]

\* a field the payload or record does not carry
Undefined == "undefined"

NoStat == -1

\* item.counter: the counter record embedded in the items of counter c
CounterRecord(c) == [id |-> c, counter_name |-> "Counter", queue_waiting |-> NoStat, queue_serving |-> NoStat]

\* processQueueData(data): the whole counterData it sets. A counter gets a
\* CounterState only if an item of the list names it; counterInfo is that
\* item's embedded counter record.
processQueueData(data) ==
    [c \in CounterIds |->
        IF \E i \in 1..Len(data) : data[i].service_counter_id = c
        THEN SortAndPromote(Populate([EmptyCounterState EXCEPT !.counterInfo = CounterRecord(c)], data, 1, c, TRUE))
        ELSE NULL]

\* counterData before the Display received anything
EmptyCounterData == [c \in CounterIds |-> NULL]

\* a bulk list the Display loaded earlier: counter 1 serving, counter 2 waiting
SeedList ==
    << [service_counter_id |-> 1, status |-> "serving", created_at |-> 1, served_at |-> NoTime],
       [service_counter_id |-> 2, status |-> "waiting", created_at |-> 1, served_at |-> NoTime] >>

\* the rebuild model at rest: the value of its variables in the other specifications
RbIdle ==
    /\ counterData = EmptyCounterData
    /\ rbOp = "none"
    /\ rbList = <<>>
    /\ rbCid = 0

\* the Display either has just mounted or has loaded a list before
RbInit ==
    /\ counterData \in {EmptyCounterData, processQueueData(SeedList)}
    /\ rbOp = "none"
    /\ rbList = <<>>
    /\ rbCid = 0

\* the initial load (or any bulk fetch) answered with `data`
ProcessQueueData ==
    /\ UNCHANGED nonRb
    /\ rbOp = "none"
    /\ \E n \in 0..MaxLen : \E data \in ListsOf(CounterIds, n) :
        /\ counterData' = processQueueData(data)
        /\ rbList' = data
    /\ rbOp' = "bulk"
    /\ rbCid' = 0

\* a QueueListUpdated event for counter cid with the list `queues`
ProcessQueueListUpdate ==
    /\ UNCHANGED nonRb
    /\ rbOp = "none"
    /\ \E cid \in CounterIds, n \in 0..MaxLen : \E queues \in ListsOf({cid}, n) :
        /\ counterData' = processQueueListUpdate(counterData, cid, queues)
        /\ rbList' = queues
        /\ rbCid' = cid
    /\ rbOp' = "list"

RbNext == ProcessQueueData \/ ProcessQueueListUpdate

(***************************************************************************)
(* Claims about the Display's rebuild                                      *)
(***************************************************************************)

\* the counters whose view the last rebuild wrote
RbTouched == IF rbOp = "bulk" THEN CounterIds ELSE IF rbOp = "list" THEN {rbCid} ELSE {}

\* the positions (ids) of counter c's items with status st in the list given
RbIdx(c, st) == {i \in 1..Len(rbList) : rbList[i].service_counter_id = c /\ rbList[i].status = st}

\* served-or-created time of the item at position i
RbServedTime(i) == IF rbList[i].served_at # NoTime THEN rbList[i].served_at ELSE rbList[i].created_at

\* q holds exactly the items at the positions in idx, each once, with the timestamps tm
RbExactly(q, idx, c, tm(_)) ==
    /\ Len(q) = Cardinality(idx)
    /\ \A i \in idx : \E k \in 1..Len(q) :
          q[k] = [id |-> i, counterNumber |-> c, timestamp |-> tm(i), isNext |-> FALSE]

RbCreated(i) == rbList[i].created_at

\* C4: rebuild correctness. For every counter the last rebuild wrote whose
\* list holds a serving entry: currentServing is a serving entry of the list
\* (the last one in list order) without isNext, waitingQueue holds exactly the
\* waiting entries in ascending creation time, and recentlyServed exactly the
\* completed entries in descending served-or-created time.
C4_RebuildCorrect ==
    \A c \in RbTouched : RbIdx(c, "serving") # {} =>
        LET v == counterData[c]
            S == RbIdx(c, "serving")
        IN /\ v # NULL
           /\ \E i \in S :
                /\ \A j \in S : j <= i
                /\ v.currentServing = [id |-> i, counterNumber |-> c, timestamp |-> RbCreated(i), isNext |-> FALSE]
           /\ RbExactly(v.waitingQueue, RbIdx(c, "waiting"), c, RbCreated)
           /\ \A k, l \in 1..Len(v.waitingQueue) : k < l => v.waitingQueue[k].timestamp <= v.waitingQueue[l].timestamp
           /\ RbExactly(v.recentlyServed, RbIdx(c, "completed"), c, RbServedTime)
           /\ \A k, l \in 1..Len(v.recentlyServed) : k < l => v.recentlyServed[k].timestamp >= v.recentlyServed[l].timestamp

\* C4 witness: a rebuild of a list with a serving entry and two waiting
\* entries given newest first, over a view that held other data before.
C4_Witness ==
    /\ rbOp = "list"
    /\ RbIdx(rbCid, "serving") # {}
    /\ \E i, j \in RbIdx(rbCid, "waiting") : i < j /\ RbCreated(i) > RbCreated(j)
    /\ \E d \in CounterIds \ {rbCid} : counterData[d] # NULL

\* C5: next-promotion. For every counter the last rebuild wrote: with no
\* serving entry and at least one waiting entry, currentServing is a waiting
\* entry of earliest creation time with isNext = TRUE; with a serving entry,
\* currentServing is a serving entry and isNext is not set; with neither,
\* currentServing is null.
C5_NextPromotion ==
    \A c \in RbTouched :
        LET v == counterData[c]
            S == RbIdx(c, "serving")
            W == RbIdx(c, "waiting")
        IN /\ (S = {} /\ W # {}) =>
                /\ v # NULL
                /\ \E i \in W :
                      /\ \A j \in W : RbCreated(i) <= RbCreated(j)
                      /\ v.currentServing = [id |-> i, counterNumber |-> c, timestamp |-> RbCreated(i), isNext |-> TRUE]
           /\ S # {} =>
                /\ v # NULL
                /\ v.currentServing # NULL
                /\ v.currentServing.id \in S
                /\ ~v.currentServing.isNext
           /\ (S = {} /\ W = {}) => (v = NULL \/ v.currentServing = NULL)

\* C5 witness: a bulk rebuild of a list without a serving entry whose two
\* waiting entries of one counter come newest first: the second is promoted.
C5_Witness ==
    /\ rbOp = "bulk"
    /\ \E c \in CounterIds :
        /\ RbIdx(c, "serving") = {}
        /\ \E i, j \in RbIdx(c, "waiting") : i < j /\ RbCreated(i) > RbCreated(j)
        /\ counterData[c].currentServing.isNext
        /\ counterData[c].currentServing.id # 1

(***************************************************************************)
(* Part 3: the throttled HTTP helpers (services/api.ts l. 392-411, 517-519, *)
(* 597-599).  Both are lodash throttle(func, wait), that is debounce with   *)
(* leading = true, trailing = true and maxWait = wait.                      *)
(***************************************************************************)

\* bounds
MaxCalls == 3
MaxAdvance == 4

FetchCountersWait == 2000
ListQueueWait == 1000

Helpers == {"listQueue", "fetchCounters"}

Wait(f) == IF f = "listQueue" THEN ListQueueWait ELSE FetchCountersWait

\* the arguments a helper is called with: listQueue takes a counter id or
\* null (0), fetchCounters takes none (0)
ArgsOf(f) == IF f = "listQueue" THEN {0} \cup CounterIds ELSE {0}

\* the times between two events
Steps == {ListQueueWait \div 2, ListQueueWait}

\* Date.now() at page load: any time later than one wait after time 0
Epoch == FetchCountersWait + ListQueueWait

ThrottleInit == [lastCallTime |-> NoTime, lastInvokeTime |-> 0, timerId |-> NoTime, lastArgs |-> NULL, result |-> 0]

ThrIdle ==
    /\ now = Epoch
    /\ thrFn = "listQueue"
    /\ thr = ThrottleInit
    /\ thrCalls = <<>>
    /\ thrFetches = <<>>

\* the two helpers have separate throttle states and share nothing but the
\* clock: a behaviour observes one of them
ThrInit ==
    /\ now = Epoch
    /\ thrFn \in Helpers
    /\ thr = ThrottleInit
    /\ thrCalls = <<>>
    /\ thrFetches = <<>>

\* lodash shouldInvoke(time), with maxing = true and maxWait = wait
shouldInvoke(t, f, time) ==
    \/ t.lastCallTime = NoTime
    \/ time - t.lastCallTime >= Wait(f)
    \/ time - t.lastCallTime < 0
    \/ time - t.lastInvokeTime >= Wait(f)

\* lodash remainingWait(time)
remainingWait(t, f, time) ==
    LET a == Wait(f) - (time - t.lastCallTime)
        b == Wait(f) - (time - t.lastInvokeTime)
    IN  IF a < b THEN a ELSE b

\* lodash invokeFunc(time): func runs with lastArgs and issues the GET; its
\* promise becomes result.  The fetch is named by its index in thrFetches.
invokeFunc(t, nFetched, time) ==
    [t EXCEPT !.lastArgs = NULL, !.lastInvokeTime = time, !.result = nFetched + 1]

\* a throttle that has no trailing edge (throttle(func, wait, {trailing: false}))
trailingEdgeMutant(t, nFetched, time) ==
    [t EXCEPT !.timerId = NoTime, !.lastArgs = NULL]

\* lodash trailingEdge(time), trailing = true
trailingEdge(t, nFetched, time) ==
    IF t.lastArgs # NULL
    THEN [invokeFunc(t, nFetched, time) EXCEPT !.timerId = NoTime]
    ELSE [t EXCEPT !.timerId = NoTime, !.lastArgs = NULL]

\* lodash debounced(...args): the state after the call
debounced(t, f, nFetched, nCalls, time, arg) ==
    LET t1 == [t EXCEPT !.lastArgs = [arg |-> arg, call |-> nCalls + 1], !.lastCallTime = time]
    IN  IF shouldInvoke(t, f, time)
        THEN \* leadingEdge(time), or the maxing branch when a timer is pending
             [invokeFunc(t1, nFetched, time) EXCEPT !.timerId = time + Wait(f)]
        ELSE IF t1.timerId = NoTime
             THEN [t1 EXCEPT !.timerId = time + Wait(f)]
             ELSE t1

\* the GET issued when the throttle state went from t to u
Fetched(t, u, args, time) ==
    IF u.result # t.result
    THEN Append(thrFetches, [time |-> time, arg |-> args.arg, call |-> args.call])
    ELSE thrFetches

\* QueueService.listQueue(arg) / CounterService.fetchCounters()
Call(f, arg) ==
    /\ UNCHANGED nonThr
    /\ f = thrFn
    /\ Len(thrCalls) < MaxCalls
    /\ LET u == debounced(thr, f, Len(thrFetches), Len(thrCalls), now, arg)
       IN  /\ thr' = u
           /\ thrCalls' = Append(thrCalls, [time |-> now, arg |-> arg, got |-> u.result])
           /\ thrFetches' = Fetched(thr, u, [arg |-> arg, call |-> Len(thrCalls) + 1], now)
    /\ UNCHANGED <<now, thrFn>>

\* lodash timerExpired(), run when the pending timer is due
TimerExpired(f) ==
    /\ UNCHANGED nonThr
    /\ f = thrFn
    /\ thr.timerId # NoTime
    /\ now >= thr.timerId
    /\ LET u == IF shouldInvoke(thr, f, now)
                THEN trailingEdge(thr, Len(thrFetches), now)
                ELSE [thr EXCEPT !.timerId = now + remainingWait(thr, f, now)]
       IN  /\ thr' = u
           /\ thrFetches' = Fetched(thr, u, IF thr.lastArgs # NULL THEN thr.lastArgs ELSE [arg |-> 0, call |-> 0], now)
    /\ UNCHANGED <<now, thrFn, thrCalls>>

\* time passes; a timer that is due runs before time passes further
Advance(d) ==
    /\ UNCHANGED nonThr
    /\ now + d <= Epoch + MaxAdvance * ListQueueWait
    /\ thr.timerId # NoTime => now + d <= thr.timerId
    /\ now' = now + d
    /\ UNCHANGED <<thrFn, thr, thrCalls, thrFetches>>

ThrNext ==
    \/ \E f \in Helpers : \E arg \in ArgsOf(f) : Call(f, arg)
    \/ \E f \in Helpers : TimerExpired(f)
    \/ \E d \in Steps : Advance(d)

(***************************************************************************)
(* Part 4: the dashboard's preview of the next queue number                *)
(* (ControllerDashboard.getNextQueueNumber, l. 351-361).  Strings are       *)
(* sequences of characters.                                                 *)
(***************************************************************************)

\* bounds: the longest queue number and the longest queue the preview is
\* computed from
MaxNumLen == 2
MaxQueue == 2

\* the characters queue numbers are made of here
Chars == {"P", "1", "9"}

QueueNumbers == UNION {[1..n -> Chars] : n \in 0..MaxNumLen}

DigitChars == <<"0", "1", "2", "3", "4", "5", "6", "7", "8", "9">>

IsDigit(c) == \E d \in 1..10 : DigitChars[d] = c

DigitVal(c) == (CHOOSE d \in 1..10 : DigitChars[d] = c) - 1

\* String.prototype.replace(pattern, '') with a string pattern: the first
\* occurrence only
replace(s, c) ==
    IF \E i \in 1..Len(s) : s[i] = c
    THEN LET i == CHOOSE i \in 1..Len(s) : s[i] = c /\ \A j \in 1..(i - 1) : s[j] # c
         IN  SubSeq(s, 1, i - 1) \o SubSeq(s, i + 1, Len(s))
    ELSE s

RECURSIVE DecValue(_)
DecValue(ds) == IF ds = <<>> THEN 0 ELSE 10 * DecValue(SubSeq(ds, 1, Len(ds) - 1)) + DigitVal(ds[Len(ds)])

\* parseInt(s): the longest prefix of digits, NaN when it is empty
parseInt(s) ==
    LET n == CHOOSE n \in 0..Len(s) :
                 /\ \A i \in 1..n : IsDigit(s[i])
                 /\ n < Len(s) => ~IsDigit(s[n + 1])
    IN  IF n = 0 THEN [nan |-> TRUE, val |-> 0] ELSE [nan |-> FALSE, val |-> DecValue(SubSeq(s, 1, n))]

RECURSIVE mathMaxMutant(_)
mathMaxMutant(ns) ==
    IF Len(ns) = 1 THEN ns[1]
    ELSE LET m == mathMaxMutant(Tail(ns)) IN IF ns[1] < m THEN ns[1] ELSE m

\* Math.max(...ns) of a non-empty list
RECURSIVE mathMax(_)
mathMax(ns) ==
    IF Len(ns) = 1 THEN ns[1]
    ELSE LET m == mathMax(Tail(ns)) IN IF ns[1] > m THEN ns[1] ELSE m

\* `${n}` of a natural number
RECURSIVE toString(_)
toString(n) == IF n < 10 THEN <<DigitChars[n + 1]>> ELSE Append(toString(n \div 10), DigitChars[(n % 10) + 1])

IsWaiting(q) == q.status = "waiting"

getNextQueueNumber(q) ==
    LET waiting == SelectSeq(q, IsWaiting)
        waitingNumbers == [i \in 1..Len(waiting) |->
                             LET num == parseInt(replace(waiting[i].queueNumber, "P"))
                             IN  IF num.nan THEN 0 ELSE num.val]
        maxNumber == IF Len(waitingNumbers) > 0 THEN mathMax(waitingNumbers) ELSE 0
    IN  <<"P">> \o toString(maxNumber + 1)

PvIdle ==
    /\ pvQueue = <<>>
    /\ pvOut = getNextQueueNumber(<<>>)

PvInit == PvIdle

\* the dashboard renders with one more entry in its queue prop and computes
\* the preview number
PvRender(n, st) ==
    /\ UNCHANGED nonPv
    /\ Len(pvQueue) < MaxQueue
    /\ pvQueue' = Append(pvQueue, [queueNumber |-> n, status |-> st])
    /\ pvOut' = getNextQueueNumber(pvQueue')

PvNext == \E n \in QueueNumbers, st \in {"waiting", "serving", "completed"} : PvRender(n, st)

(***************************************************************************)
(* Part 5: the controller's local queue state and its action handlers      *)
(* (ControllerWrapper, l. 1221-1632 of the controller source, and the       *)
(* dashboard's handleCallNext, l. 110-126), with the Gateway behind them.   *)
(* The Gateway is not part of the repository: it is modelled from the       *)
(* description of its operations.                                           *)
(***************************************************************************)

\* bounds
MaxEntries == 3
MaxOps == 1
MaxOther == 1
MaxServed == 4

\* useState(1): the active counter; the model keeps it
ActiveCounter == 1

Statuses == {"waiting", "serving", "completed"}

\* customer names; the empty name is falsy in "if (item.name)"
Names == {"Ben", ""}

EntryIds == 1..MaxEntries

\* an entry as list-queue returns it and as a patch carries it
Entry(id, e) == [id |-> id, status |-> e.status, name |-> e.name]

\* ---- the Gateway ----

\* list-queue for the active counter
GwList(g) == [i \in 1..Len(g) |-> Entry(i, g[i])]

GwWaiting(g) == {i \in 1..Len(g) : g[i].status = "waiting"}

GwFirstWaiting(g) == CHOOSE i \in GwWaiting(g) : \A j \in GwWaiting(g) : i <= j

\* the Gateway can perform the request
GwCan(g, r) ==
    CASE r.kind = "list" -> TRUE
      [] r.kind = "recall" -> r.id \in 1..Len(g)
      [] r.kind = "complete" -> r.id \in 1..Len(g)
      [] r.kind = "add" -> Len(g) < MaxEntries
      [] r.kind = "callNext" -> GwWaiting(g) # {}

\* the entry the request is about, once performed on g
GwTarget(g, r) ==
    CASE r.kind = "add" -> Len(g) + 1
      [] r.kind = "callNext" -> GwFirstWaiting(g)
      [] OTHER -> r.id

\* the Gateway's entries after it performed the request: an entry goes from
\* waiting to serving to completed and stays completed
GwApply(g, r) ==
    CASE r.kind = "complete" -> [g EXCEPT ![r.id].status = "completed"]
      [] r.kind = "add" -> Append(g, [status |-> "waiting", name |-> r.name])
      [] r.kind = "callNext" -> [g EXCEPT ![GwFirstWaiting(g)].status = "serving"]
      [] OTHER -> g

\* the events the Gateway broadcasts after a change of entry i: the entry
\* (ServiceQueueUpdated) and a list update (QueueListUpdated)
GwEvents(g, i) == <<[type |-> "patch", item |-> Entry(i, g[i])], [type |-> "list", item |-> NULL]>>

NoResp == [success |-> FALSE, data |-> NULL, list |-> <<>>]

\* the answer to a performed request
GwResp(g, r, withData) ==
    IF r.kind = "list" THEN [success |-> TRUE, data |-> NULL, list |-> GwList(g)]
    ELSE [success |-> TRUE, data |-> IF withData THEN Entry(GwTarget(g, r), GwApply(g, r)[GwTarget(g, r)]) ELSE NULL, list |-> <<>>]

\* ---- the controller ----

CtlIds(q) == {q[i].id : i \in 1..Len(q)}

\* queue.find(q => q.id === id); the caller has checked that it is there
CtlFind(q, id) == q[CHOOSE i \in 1..Len(q) : q[i].id = id /\ \A j \in 1..i - 1 : q[j].id # id]

\* the requests QueueService sends (api.ts); the continuation that awaits
\* the answer is named by owner, with what its closure captured: the
\* currentServing of the render (cs) and, for Skip, the entry's name
Request(kind, id, name, owner, cs) ==
    [kind |-> kind, id |-> id, name |-> name, priority |-> FALSE, owner |-> owner, cs |-> cs, stage |-> "sent", resp |-> NoResp]

listQueue(counterId) == Request("list", counterId, "", "loadQueue", NULL)

\* a completeQueue that posts to the recall endpoint
completeQueueMutant(id, name, owner, cs) == Request("recall", id, name, owner, cs)

completeQueue(id, name, owner, cs) == Request("complete", id, name, owner, cs)

callNext(counterId, cs) == Request("callNext", counterId, "", "handleCallNext", cs)

addPersonMutant(name, id) == Request("add", id, "", "handleSkipAdd", NULL)

addPerson(name, id) == Request("add", id, name, "handleSkipAdd", NULL)

\* the names typed into the Add Person dialog, and String.prototype.trim on them
TypedNames == {"Ben", " Ben ", " "}

trim(s) == CASE s = " Ben " -> "Ben" [] s = " " -> "" [] OTHER -> s

\* the request of the wrapper's handleAddPerson(name): the name trimmed,
\* is_priority: false
handleAddPerson(name) == Request("add", 0, trim(name), "handleAddPerson", NULL)

\* what the history keeps of a request sent
Logged(r) == [kind |-> r.kind, id |-> r.id, name |-> r.name, priority |-> r.priority, owner |-> r.owner]

\* the local state a handler works on
CtlState == [queue |-> queue, currentServing |-> currentServing, totalServedToday |-> totalServedToday,
             isQueueLoading |-> isQueueLoading, reqs |-> reqs, stale |-> "none"]

\* loadQueue(): returns at once while a load is in flight or cooling down,
\* else sets the flag and asks the Gateway for the active counter's list.
\* In the controller every listQueue call follows the previous one by more
\* than the throttle's wait (the flag is cleared 1000 ms after the answer),
\* so the throttled helper fetches at once.
loadQueueMutant(st) == [st EXCEPT !.isQueueLoading = TRUE, !.reqs = Append(@, listQueue(ActiveCounter))]

loadQueue(st) ==
    IF st.isQueueLoading THEN st
    ELSE [st EXCEPT !.isQueueLoading = TRUE, !.reqs = Append(@, listQueue(ActiveCounter))]

\* processQueueData(queueData)
ctlProcessQueueData(st, list) ==
    LET serving == {i \in 1..Len(list) : list[i].status = "serving"}
        completed == {i \in 1..Len(list) : list[i].status = "completed"}
    IN  [st EXCEPT !.queue = list,
                   !.currentServing = IF serving = {} THEN NULL ELSE list[CHOOSE i \in serving : \A j \in serving : i <= j],
                   !.totalServedToday = Cardinality(completed)]

\* updateQueueState(updatedItem), run by a closure that captured cs as the
\* currentServing of its render.  The id is never missing in an entry of the
\* Gateway, so the first guard never returns.
updateQueueState(st, cs, p) ==
    LET known == p.id \in CtlIds(st.queue)
        st1 == IF known
               THEN [st EXCEPT !.queue = [i \in 1..Len(st.queue) |-> IF st.queue[i].id = p.id THEN p ELSE st.queue[i]]]
               ELSE loadQueue([st EXCEPT !.stale = IF st.isQueueLoading THEN "dropped" ELSE "issued"])
        st2 == IF p.status = "serving" THEN [st1 EXCEPT !.currentServing = p]
               ELSE IF p.status = "completed" /\ cs # NULL /\ cs.id = p.id THEN [st1 EXCEPT !.currentServing = NULL]
               ELSE st1
    IN  IF p.status = "completed" THEN [st2 EXCEPT !.totalServedToday = @ + 1] ELSE st2

\* the handler's result becomes the local state
CtlCommit(st) ==
    /\ st.totalServedToday <= MaxServed
    /\ queue' = st.queue
    /\ currentServing' = st.currentServing
    /\ totalServedToday' = st.totalServedToday
    /\ isQueueLoading' = st.isQueueLoading
    /\ reqs' = st.reqs
    /\ stale' = st.stale

\* at most one list request is in flight, and a handler sends at most two
\* requests before it awaits
ReqSlots == 1..(2 * MaxOps + 1)

Outcomes == {"ok", "okNoData", "reject", "lost"}

\* the requests in flight without the k-th
Without(rs, k) == [i \in 1..Len(rs) - 1 |-> IF i < k THEN rs[i] ELSE rs[i + 1]]

\* what the Gateway holds when the controller is opened
GwSeeds == {<<>>, <<[status |-> "waiting", name |-> "Ben"]>>,
            <<[status |-> "serving", name |-> ""], [status |-> "waiting", name |-> "Ben"]>>}

\* the controller is mounted: nothing loaded yet, the initial load scheduled
\* (setTimeout(() => loadQueue(), 500) of the mount effect)
CtlStart(g) ==
    /\ gw = g
    /\ queue = <<>>
    /\ currentServing = NULL
    /\ totalServedToday = 0
    /\ isQueueLoading = FALSE
    /\ coolDown = FALSE
    /\ reloadTimers = 1
    /\ reqs = <<>>
    /\ events = <<>>
    /\ nOps = 0
    /\ nOther = 0
    /\ stale = "none"
    /\ skipped = {}
    /\ skipOk = {}
    /\ isSpeaking = FALSE
    /\ sent = <<>>
    /\ invoked = <<>>
    /\ alerts = 0
    /\ failures = 0
    /\ spoken = <<>>
    /\ printed = <<>>
    /\ called = <<>>
    /\ answered = <<>>

CtlIdle == CtlStart(<<>>)

CtlInit == \E g \in GwSeeds : CtlStart(g)

\* handleSkip(id), up to its first await: the Skip button of a waiting row
HandleSkip(id) ==
    /\ UNCHANGED nonCtl
    /\ nOps < MaxOps
    /\ \E i \in 1..Len(queue) : queue[i].id = id /\ queue[i].status = "waiting"
    /\ CtlCommit([CtlState EXCEPT !.reqs = Append(@, completeQueue(id, CtlFind(queue, id).name, "handleSkip", currentServing))])
    /\ nOps' = nOps + 1
    /\ sent' = Append(sent, Logged(completeQueue(id, CtlFind(queue, id).name, "handleSkip", currentServing)))
    /\ invoked' = Append(invoked, [op |-> "skip", id |-> id, known |-> TRUE, name |-> CtlFind(queue, id).name])
    /\ UNCHANGED <<gw, coolDown, reloadTimers, events, nOther, skipped, skipOk>>
    /\ UNCHANGED <<isSpeaking, alerts, failures, spoken, printed, called, answered>>

\* handleSkip(id) for an id that queue.find does not find: it returns
HandleSkipUnknown(id) ==
    /\ UNCHANGED nonCtl
    /\ nOps < MaxOps
    /\ id \notin CtlIds(queue)
    /\ nOps' = nOps + 1
    /\ invoked' = Append(invoked, [op |-> "skip", id |-> id, known |-> FALSE, name |-> ""])
    /\ stale' = "none"
    /\ UNCHANGED <<gw, queue, currentServing, totalServedToday, isQueueLoading, coolDown, reloadTimers, reqs, events, nOther, skipped, skipOk>>
    /\ UNCHANGED <<isSpeaking, sent, alerts, failures, spoken, printed, called, answered>>

\* handleComplete(id), up to its await: the Complete button of a serving or
\* waiting row
HandleComplete(id) ==
    /\ UNCHANGED nonCtl
    /\ nOps < MaxOps
    /\ \E i \in 1..Len(queue) : queue[i].id = id /\ queue[i].status \in {"serving", "waiting"}
    /\ CtlCommit([CtlState EXCEPT !.reqs = Append(@, completeQueue(id, "", "handleComplete", currentServing))])
    /\ nOps' = nOps + 1
    /\ sent' = Append(sent, Logged(completeQueue(id, "", "handleComplete", currentServing)))
    /\ invoked' = Append(invoked, [op |-> "complete", id |-> id, known |-> TRUE, name |-> ""])
    /\ UNCHANGED <<gw, coolDown, reloadTimers, events, nOther, skipped, skipOk>>
    /\ UNCHANGED <<isSpeaking, alerts, failures, spoken, printed, called, answered>>

\* the first waiting entry of the local queue: queue.find(q => q.status === 'waiting')
CtlWaiting(q) == {i \in 1..Len(q) : q[i].status = "waiting"}

CtlFirstWaiting(q) == q[CHOOSE i \in CtlWaiting(q) : \A j \in CtlWaiting(q) : i <= j]

\* speak(text): dropped while an announcement is being spoken (the browser
\* has a speech engine: speechSynth.current is set)
speakMutant(busy, log, a) == Append(log, a)

speak(busy, log, a) == IF busy THEN log ELSE Append(log, a)

\* the dashboard's handleCallNext: onComplete(currentServing.id) when somebody
\* is being served, then onCallNext(); both requests leave in the same step.
\* Then the first waiting entry of the local queue, if any, is announced.
HandleCallNext ==
    /\ UNCHANGED nonCtl
    /\ nOps < MaxOps
    /\ LET done == IF currentServing # NULL
                   THEN <<completeQueue(currentServing.id, "", "handleComplete", currentServing)>>
                   ELSE <<>>
           rs == done \o <<callNext(ActiveCounter, currentServing)>>
       IN  /\ CtlCommit([CtlState EXCEPT !.reqs = reqs \o rs])
           /\ sent' = sent \o [i \in 1..Len(rs) |-> Logged(rs[i])]
    /\ nOps' = nOps + 1
    /\ invoked' = Append(invoked, [op |-> "callNext", id |-> 0, known |-> TRUE, name |-> ""])
    /\ IF CtlWaiting(queue) # {}
       THEN /\ spoken' = speak(isSpeaking, spoken, [kind |-> "call", counter |-> ActiveCounter,
                                                    id |-> CtlFirstWaiting(queue).id, name |-> CtlFirstWaiting(queue).name])
            /\ isSpeaking' = TRUE
       ELSE UNCHANGED <<spoken, isSpeaking>>
    /\ UNCHANGED <<gw, coolDown, reloadTimers, events, nOther, skipped, skipOk>>
    /\ UNCHANGED <<alerts, failures, printed, called, answered>>

\* the queue number of a local entry, as the Gateway numbers its entries
GwQueueNumber(id) == <<"P">> \o toString(id)

\* the dashboard's handleSubmit of the Add Person dialog: nothing when the
\* trimmed name is empty; else the preview number is computed, onAddPerson
\* sends the request and setLastAddedTicket makes the print effect print the
\* ticket after this render
HandleSubmit(newPersonName, isPriority) ==
    /\ UNCHANGED nonCtl
    /\ nOps < MaxOps
    /\ nOps' = nOps + 1
    /\ invoked' = Append(invoked, [op |-> "submit", id |-> 0, known |-> trim(newPersonName) # "", name |-> trim(newPersonName)])
    /\ IF trim(newPersonName) # ""
       THEN /\ CtlCommit([CtlState EXCEPT !.reqs = Append(@, handleAddPerson(trim(newPersonName)))])
            /\ sent' = Append(sent, Logged(handleAddPerson(trim(newPersonName))))
            /\ printed' = Append(printed,
                     [queueNumber |-> getNextQueueNumber([i \in 1..Len(queue) |->
                                         [queueNumber |-> GwQueueNumber(queue[i].id), status |-> queue[i].status]]),
                      name |-> trim(newPersonName),
                      isPriority |-> isPriority])
       ELSE /\ stale' = "none"
            /\ UNCHANGED <<queue, currentServing, totalServedToday, isQueueLoading, reqs, sent, printed>>
    /\ UNCHANGED <<gw, coolDown, reloadTimers, events, nOther, skipped, skipOk>>
    /\ UNCHANGED <<isSpeaking, alerts, failures, spoken, called, answered>>

\* the speech engine ends the utterance (onend / onerror)
SpeechEnd ==
    /\ UNCHANGED nonCtl
    /\ isSpeaking
    /\ isSpeaking' = FALSE
    /\ stale' = "none"
    /\ UNCHANGED <<gw, queue, currentServing, totalServedToday, isQueueLoading, coolDown, reloadTimers, reqs, events, nOps, nOther, skipped, skipOk>>
    /\ UNCHANGED <<sent, invoked, alerts, failures, spoken, printed, called, answered>>

\* the Gateway takes a request and answers it.  out: "ok" (performed, the
\* entry returned), "okNoData" (performed, no data payload), "reject"
\* (refused or never arrived: success false), "lost" (performed, but the
\* answer is lost: the client sees a failure)
GwProcess(k, out) ==
    /\ UNCHANGED nonCtl
    /\ k \in 1..Len(reqs)
    /\ reqs[k].stage = "sent"
    /\ out # "reject" => GwCan(gw, reqs[k])
    /\ out = "okNoData" => reqs[k].kind # "list"
    /\ gw' = IF out = "reject" THEN gw ELSE GwApply(gw, reqs[k])
    /\ events' = IF gw' # gw THEN events \o GwEvents(gw', GwTarget(gw, reqs[k])) ELSE events
    /\ reqs' = [reqs EXCEPT ![k].stage = "answered",
                            ![k].resp = IF out \in {"reject", "lost"} THEN NoResp ELSE GwResp(gw, reqs[k], out = "ok")]
    /\ stale' = "none"
    /\ UNCHANGED <<queue, currentServing, totalServedToday, isQueueLoading, coolDown, reloadTimers, nOps, nOther, skipped, skipOk>>
    /\ UNCHANGED ctlLog

\* another client's request changes the Gateway
GwOther(r) ==
    /\ UNCHANGED nonCtl
    /\ nOther < MaxOther
    /\ GwCan(gw, r)
    /\ GwApply(gw, r) # gw
    /\ gw' = GwApply(gw, r)
    /\ events' = events \o GwEvents(gw', GwTarget(gw, r))
    /\ nOther' = nOther + 1
    /\ stale' = "none"
    /\ UNCHANGED <<queue, currentServing, totalServedToday, isQueueLoading, coolDown, reloadTimers, reqs, nOps, skipped, skipOk>>
    /\ UNCHANGED ctlLog

OtherRequests ==
    {Request("complete", i, "", "other", NULL) : i \in EntryIds}
        \cup {Request("add", 0, n, "other", NULL) : n \in Names}
        \cup {Request("callNext", ActiveCounter, "", "other", NULL)}

\* the continuation of handleComplete / handleCallNext after the await: on
\* success the returned entry, when there is one, is patched in
AfterAction(st, r) ==
    IF r.resp.success /\ r.resp.data # NULL THEN updateQueueState(st, r.cs, r.resp.data) ELSE st

\* the answer to a request arrives and the continuation awaiting it runs
Receive(k) ==
    /\ UNCHANGED nonCtl
    /\ k \in 1..Len(reqs)
    /\ reqs[k].stage = "answered"
    /\ LET r == reqs[k]
           st0 == [CtlState EXCEPT !.reqs = Without(reqs, k)]
       IN  CASE r.owner = "loadQueue" ->
                  \* loadQueue after the await; finally: the cool-down timer
                  /\ CtlCommit(IF r.resp.success THEN ctlProcessQueueData(st0, r.resp.list) ELSE st0)
                  /\ coolDown' = TRUE
                  /\ UNCHANGED <<reloadTimers, skipped, skipOk, sent, alerts, failures, called>>
             [] r.owner \in {"handleComplete", "handleCallNext"} ->
                  \* success: patch and schedule the reload; else alert(...)
                  /\ CtlCommit(AfterAction(st0, r))
                  /\ reloadTimers' = IF r.resp.success THEN reloadTimers + 1 ELSE reloadTimers
                  /\ alerts' = IF r.resp.success THEN alerts ELSE alerts + 1
                  /\ failures' = IF r.resp.success THEN failures ELSE failures + 1
                  /\ called' = IF r.owner = "handleCallNext" /\ r.resp.success /\ r.resp.data # NULL
                               THEN Append(called, r.resp.data) ELSE called
                  /\ UNCHANGED <<coolDown, skipped, skipOk, sent>>
             [] r.owner = "handleSkip" ->
                  \* handleComplete returns whatever the answer was, and
                  \* handleSkip goes on to re-add the name
                  /\ LET st1 == AfterAction(st0, r)
                     IN  CtlCommit(IF r.name # "" THEN [st1 EXCEPT !.reqs = Append(@, addPerson(r.name, r.id))] ELSE st1)
                  /\ sent' = IF r.name # "" THEN Append(sent, Logged(addPerson(r.name, r.id))) ELSE sent
                  /\ reloadTimers' = IF r.resp.success THEN reloadTimers + 1 ELSE reloadTimers
                  /\ alerts' = IF r.resp.success THEN alerts ELSE alerts + 1
                  /\ failures' = IF r.resp.success THEN failures ELSE failures + 1
                  /\ skipOk' = IF r.resp.success THEN skipOk \cup {r.id} ELSE skipOk
                  /\ skipped' = IF r.name # "" THEN skipped ELSE skipped \cup {r.id}
                  /\ UNCHANGED <<coolDown, called>>
             [] r.owner = "handleAddPerson" ->
                  \* success: setTimeout(() => loadQueue(), 500); else alert(...)
                  /\ CtlCommit(st0)
                  /\ reloadTimers' = IF r.resp.success THEN reloadTimers + 1 ELSE reloadTimers
                  /\ alerts' = IF r.resp.success THEN alerts ELSE alerts + 1
                  /\ failures' = IF r.resp.success THEN failures ELSE failures + 1
                  /\ UNCHANGED <<coolDown, skipped, skipOk, sent, called>>
             [] r.owner = "handleSkipAdd" ->
                  \* the answer to the re-add is only logged to the console
                  /\ CtlCommit(st0)
                  /\ skipped' = skipped \cup {r.id}
                  /\ failures' = IF r.resp.success THEN failures ELSE failures + 1
                  /\ UNCHANGED <<coolDown, reloadTimers, skipOk, sent, alerts, called>>
    /\ answered' = IF reqs[k].owner = "loadQueue" THEN answered
                   ELSE Append(answered, [owner |-> reqs[k].owner, success |-> reqs[k].resp.success])
    /\ UNCHANGED <<gw, events, nOps, nOther, isSpeaking, invoked, spoken, printed>>

\* a scheduled setTimeout(() => loadQueue(), ...) fires
ReloadTimer ==
    /\ UNCHANGED nonCtl
    /\ reloadTimers > 0
    /\ reloadTimers' = reloadTimers - 1
    /\ CtlCommit(loadQueue(CtlState))
    /\ UNCHANGED <<gw, coolDown, events, nOps, nOther, skipped, skipOk>>
    /\ UNCHANGED ctlLog

\* the cool-down timer of loadQueue's finally fires
CoolDownTimer ==
    /\ UNCHANGED nonCtl
    /\ coolDown
    /\ coolDown' = FALSE
    /\ isQueueLoading' = FALSE
    /\ stale' = "none"
    /\ UNCHANGED <<gw, queue, currentServing, totalServedToday, reloadTimers, reqs, events, nOps, nOther, skipped, skipOk>>
    /\ UNCHANGED ctlLog

\* the oldest realtime event is delivered (the socket delivers in order):
\* handleServiceQueueUpdate patches the entry (its updateQueueState is the
\* one of the first render, whose currentServing is null),
\* handleQueueListUpdate reloads
DeliverEvent ==
    /\ UNCHANGED nonCtl
    /\ events # <<>>
    /\ events' = Tail(events)
    /\ CtlCommit(IF Head(events).type = "patch" THEN updateQueueState(CtlState, NULL, Head(events).item) ELSE loadQueue(CtlState))
    /\ UNCHANGED <<gw, coolDown, reloadTimers, nOps, nOther, skipped, skipOk>>
    /\ UNCHANGED ctlLog

\* the oldest realtime event is lost (the socket was down)
LoseEvent ==
    /\ UNCHANGED nonCtl
    /\ events # <<>>
    /\ events' = Tail(events)
    /\ stale' = "none"
    /\ UNCHANGED <<gw, queue, currentServing, totalServedToday, isQueueLoading, coolDown, reloadTimers, reqs, nOps, nOther, skipped, skipOk>>
    /\ UNCHANGED ctlLog

CtlNext ==
    \/ \E id \in EntryIds : HandleSkip(id)
    \/ \E id \in EntryIds : HandleSkipUnknown(id)
    \/ \E id \in EntryIds : HandleComplete(id)
    \/ HandleCallNext
    \/ \E k \in ReqSlots : \E out \in Outcomes : GwProcess(k, out)
    \/ \E r \in OtherRequests : GwOther(r)
    \/ \E k \in ReqSlots : Receive(k)
    \/ ReloadTimer
    \/ CoolDownTimer
    \/ DeliverEvent
    \/ LoseEvent
    \/ SpeechEnd
    \/ \E newPersonName \in TypedNames, isPriority \in BOOLEAN : HandleSubmit(newPersonName, isPriority)

(***************************************************************************)
(* Part 6: the session store (services/api.ts l. 376-389, 491-512)         *)
(***************************************************************************)

\* bound: the session operations of one behaviour
MaxSess == 3

Tokens == {"t1", "t2"}

\* null of localStorage.getItem and of setAuthToken's parameter
NoToken == ""

NoHeader == [scheme |-> "", token |-> ""]

\* `Bearer ${token}`
Bearer(token) == [scheme |-> "Bearer", token |-> token]

SessState == [header |-> authHeader, stored |-> storedToken]

setAuthTokenMutant(st, token) ==
    IF token # NoToken
    THEN [header |-> Bearer(token), stored |-> token]
    ELSE [header |-> NoHeader, stored |-> st.stored]

setAuthToken(st, token) ==
    IF token # NoToken
    THEN [header |-> Bearer(token), stored |-> token]
    ELSE [header |-> NoHeader, stored |-> NoToken]

\* module evaluation: no header default yet; the stored token, if any, is
\* installed
initToken(stored) ==
    LET st == [header |-> NoHeader, stored |-> stored]
    IN  IF stored # NoToken THEN setAuthToken(st, stored) ELSE st

\* the answers of the Gateway to login and logout: success (login: with or
\* without a token), rejection, transport failure
SessOutcomes == {"ok", "okNoToken", "reject", "fail"}

\* login after the await
login(st, out, token) == IF out = "ok" THEN setAuthToken(st, token) ELSE st

logoutMutant(st, out) == IF out = "fail" THEN st ELSE setAuthToken(st, NoToken)

\* logout after the await: try and catch both clear the token
logout(st, out) == IF out = "fail" THEN setAuthToken(st, NoToken) ELSE setAuthToken(st, NoToken)

SessStart(stored) ==
    /\ authHeader = initToken(stored).header
    /\ storedToken = initToken(stored).stored
    /\ sessReqs = <<>>
    /\ sessLast = [op |-> "init", out |-> "", token |-> stored, before |-> stored]
    /\ nSess = 0

SessIdle == SessStart(NoToken)

SessInit == \E stored \in Tokens \cup {NoToken} : SessStart(stored)

SessCommit(st) ==
    /\ authHeader' = st.header
    /\ storedToken' = st.stored

\* the page is loaded again: the module is evaluated anew, what was in
\* flight is gone, localStorage is kept
ModuleInit ==
    /\ UNCHANGED nonSess
    /\ nSess < MaxSess
    /\ SessCommit(initToken(storedToken))
    /\ sessReqs' = <<>>
    /\ sessLast' = [op |-> "init", out |-> "", token |-> storedToken, before |-> storedToken]
    /\ nSess' = nSess + 1

SetAuthToken(token) ==
    /\ UNCHANGED nonSess
    /\ nSess < MaxSess
    /\ SessCommit(setAuthToken(SessState, token))
    /\ sessLast' = [op |-> "setAuthToken", out |-> "", token |-> token, before |-> storedToken]
    /\ nSess' = nSess + 1
    /\ UNCHANGED sessReqs

\* login(username, password) / logout(), up to the await
SessCall(op) ==
    /\ UNCHANGED nonSess
    /\ nSess < MaxSess
    /\ sessReqs' = Append(sessReqs, op)
    /\ nSess' = nSess + 1
    /\ UNCHANGED <<authHeader, storedToken, sessLast>>

SessSlots == 1..MaxSess

SessWithout(rs, k) == SubSeq(rs, 1, k - 1) \o SubSeq(rs, k + 1, Len(rs))

\* the Gateway answers the login request and login returns
LoginReturn(k, out, token) ==
    /\ UNCHANGED nonSess
    /\ k \in 1..Len(sessReqs)
    /\ sessReqs[k] = "login"
    /\ SessCommit(login(SessState, out, token))
    /\ sessReqs' = SessWithout(sessReqs, k)
    /\ sessLast' = [op |-> "login", out |-> out, token |-> IF out = "ok" THEN token ELSE NoToken, before |-> storedToken]
    /\ UNCHANGED nSess

\* the Gateway answers the logout request, or the request fails, and logout
\* returns
LogoutReturn(k, out) ==
    /\ UNCHANGED nonSess
    /\ k \in 1..Len(sessReqs)
    /\ sessReqs[k] = "logout"
    /\ out # "okNoToken"
    /\ SessCommit(logout(SessState, out))
    /\ sessReqs' = SessWithout(sessReqs, k)
    /\ sessLast' = [op |-> "logout", out |-> out, token |-> NoToken, before |-> storedToken]
    /\ UNCHANGED nSess

SessNext ==
    \/ ModuleInit
    \/ \E token \in Tokens \cup {NoToken} : SetAuthToken(token)
    \/ \E op \in {"login", "logout"} : SessCall(op)
    \/ \E k \in SessSlots, out \in SessOutcomes, token \in Tokens : LoginReturn(k, out, token)
    \/ \E k \in SessSlots, out \in SessOutcomes : LogoutReturn(k, out)

(***************************************************************************)
(* Part 7: the Display over sequences of bulk loads, QueueListUpdated      *)
(* events and counter-stat events, and its derived lists (Display.tsx      *)
(* l. 39-160, 265-284, 311-333)                                            *)
(***************************************************************************)

\* bound: the longest list given in a sequence
DispLen == 2

\* the items of the lists given: serving and waiting ones (completed items go
\* to recentlyServed only, which the rebuild claims cover)
DispItems(cids) == [service_counter_id : cids, status : {"waiting", "serving"}, created_at : Times, served_at : {NoTime}]

DispLists(cids) == UNION {[1..n -> DispItems(cids)] : n \in 0..DispLen}

\* the payload of the counter-stat event (QueueUpdated) for counter c
StatPayloads(c) ==
    {[counter_id |-> c, counter_name |-> "Cashier", queue_waiting |-> 0, queue_serving |-> NoStat]}

\* the onAllCountersUpdate callback's updater: a ?? b takes b when a is missing
mergeCounterStats(prev, data) ==
    LET key == data.counter_id
        old == IF prev[key] = NULL THEN EmptyCounterState ELSE prev[key]
        info == old.counterInfo
    IN  [prev EXCEPT ![key] = [old EXCEPT !.counterInfo =
            [id |-> data.counter_id,
             counter_name |-> IF data.counter_name # Undefined THEN data.counter_name
                              ELSE IF info # NULL THEN info.counter_name ELSE Undefined,
             queue_waiting |-> IF data.queue_waiting # NoStat THEN data.queue_waiting
                               ELSE IF info # NULL THEN info.queue_waiting ELSE NoStat,
             queue_serving |-> IF data.queue_serving # NoStat THEN data.queue_serving
                               ELSE IF info # NULL THEN info.queue_serving ELSE NoStat]]]

\* the counters shown under "next to serve"
nextToServe(cd) == {c \in CounterIds : cd[c] # NULL /\ cd[c].currentServing # NULL /\ cd[c].currentServing.isNext}

\* Array.prototype.slice(k)
Slice(q, k) == SubSeq(q, k + 1, Len(q))

\* the stable sort with (a, b) => a.position - b.position
SortByPosition(q) ==
    LET RECURSIVE Srt(_)
        Srt(r) == IF r = <<>> THEN <<>>
                  ELSE LET x == r[Len(r)]
                           done == Srt(SubSeq(r, 1, Len(r) - 1))
                           k == Cardinality({i \in 1..Len(done) : done[i].position <= x.position})
                       IN SubSeq(done, 1, k) \o <<x>> \o SubSeq(done, k + 1, Len(done))
    IN Srt(q)

\* the rows one counter contributes to allWaitingCustomers
WaitingRows(cd, c, skip) ==
    IF cd[c] = NULL THEN <<>>
    ELSE LET rest == Slice(cd[c].waitingQueue, skip)
         IN  [idx \in 1..Len(rest) |->
                 [id |-> rest[idx].id, timestamp |-> rest[idx].timestamp,
                  position |-> (idx - 1) + (skip + 1), counterNumber |-> c]]

\* Object.entries(counterData).flatMap(...): the counters in key order
RECURSIVE FlatMapFrom(_, _, _)
FlatMapFrom(cd, c, skip) ==
    IF c \notin CounterIds THEN <<>> ELSE WaitingRows(cd, c, skip) \o FlatMapFrom(cd, c + 1, skip)

allWaitingCustomers(cd) ==
    SortByPosition(FlatMapFrom(cd, 1, IF Cardinality(nextToServe(cd)) > 0 THEN 1 ELSE 0))

NoList == [given |-> FALSE, list |-> <<>>]

DispIdle ==
    /\ latest = [c \in CounterIds |-> NoList]
    /\ allWaiting = allWaitingCustomers(EmptyCounterData)

\* the Display has mounted
DispInit == RbIdle /\ DispIdle

nonDisplay == <<wsVars, thrVars, ctlVars, pvVars, sessVars, rbOp, rbList, rbCid, spVars, swVars, dsVars, lmVars>>
nonSp == <<wsVars, rbVars, thrVars, ctlVars, pvVars, sessVars, dispVars, swVars, dsVars, lmVars>>
nonSw == <<wsVars, rbVars, thrVars, ctlVars, pvVars, sessVars, dispVars, spVars, dsVars, lmVars>>
nonDs == <<wsVars, rbVars, thrVars, ctlVars, pvVars, sessVars, dispVars, spVars, swVars, lmVars>>
nonLm == <<wsVars, rbVars, thrVars, ctlVars, pvVars, sessVars, dispVars, spVars, swVars, dsVars>>

\* a bulk list is loaded: processQueueData(data) replaces counterData
DispQueueData(data) ==
    /\ UNCHANGED nonDisplay
    /\ counterData' = processQueueData(data)
    /\ latest' = [c \in CounterIds |-> [given |-> TRUE, list |-> data]]
    /\ allWaiting' = allWaitingCustomers(counterData')

\* a QueueListUpdated event for counter cid
DispQueueListUpdate(cid, queues) ==
    /\ UNCHANGED nonDisplay
    /\ \A i \in 1..Len(queues) : queues[i].service_counter_id = cid
    /\ counterData' = processQueueListUpdate(counterData, cid, queues)
    /\ latest' = [latest EXCEPT ![cid] = [given |-> TRUE, list |-> queues]]
    /\ allWaiting' = allWaitingCustomers(counterData')

\* a counter-stat event
DispCounterStats(data) ==
    /\ UNCHANGED nonDisplay
    /\ counterData' = mergeCounterStats(counterData, data)
    /\ allWaiting' = allWaitingCustomers(counterData')
    /\ UNCHANGED latest

DispNext ==
    \/ \E data \in DispLists(CounterIds) : DispQueueData(data)
    \/ \E cid \in CounterIds : \E queues \in DispLists({cid}) : DispQueueListUpdate(cid, queues)
    \/ \E c \in CounterIds : \E data \in StatPayloads(c) : DispCounterStats(data)

(***************************************************************************)
(* Part 8: the dashboard's speech announcement (ControllerDashboard        *)
(* l. 73-108): speak() over sequences of calls, engine completions, engine *)
(* errors and calls whose hand-over to the engine throws.                  *)
(***************************************************************************)

MaxSpeak == 3

Texts == {"call", "recall"}

\* useRef(null), useRef(false); nothing handed to the engine
SpIdle ==
    /\ spSynth = FALSE
    /\ spBusy = FALSE
    /\ spEngine = <<>>
    /\ spCalls = <<>>

\* After the mount effect (l. 80-95): the utterance object exists if the
\* platform has speechSynthesis.
SpInit ==
    /\ spSynth \in BOOLEAN
    /\ spBusy = FALSE
    /\ spEngine = <<>>
    /\ spCalls = <<>>

\* speak(text), l. 97-108, called by handleCallNext (l. 124) and
\* handleRecall (l. 133).  throws: window.speechSynthesis.speak throws.
Speak ==
    \E text \in Texts : \E throws \in BOOLEAN :
        /\ Len(spCalls) < MaxSpeak
        /\ LET off == ~spSynth \/ spBusy
               eng == speak(off \/ throws, spEngine, text)
           IN  /\ spEngine' = eng
               /\ spBusy' = IF off THEN spBusy ELSE ~throws
               /\ spCalls' = Append(spCalls, [text |-> text, busy |-> spBusy, throws |-> throws,
                                              spoken |-> eng # spEngine])
        /\ UNCHANGED <<spSynth, nonSp>>

\* speechSynth.current.onend (l. 86-88): the utterance has been spoken
SpeechOnEnd ==
    /\ spEngine # <<>>
    /\ spEngine' = Tail(spEngine)
    /\ spBusy' = FALSE
    /\ UNCHANGED <<spSynth, spCalls, nonSp>>

\* speechSynth.current.onerror (l. 90-92): the engine gave the utterance up
SpeechOnError ==
    /\ spEngine # <<>>
    /\ spEngine' = Tail(spEngine)
    /\ spBusy' = FALSE
    /\ UNCHANGED <<spSynth, spCalls, nonSp>>

SpNext == Speak \/ SpeechOnEnd \/ SpeechOnError

(***************************************************************************)
(* Part 9: the controller's active counter (ControllerWrapper l. 1229-1262, *)
(* 1331-1357, 1619-1622): counter changes interleaved with the list loads   *)
(* they schedule, the answers and the cool-down timer.                      *)
(***************************************************************************)

MaxSwitch == 2
MaxListEvents == 1
MaxApplied == 3

\* useState(1), useRef(counterNumber), useRef(false); nothing scheduled
SwIdle ==
    /\ counterNumber = 1
    /\ currentCounterRef = 1
    /\ swLoading = FALSE
    /\ swCoolDown = FALSE
    /\ swLoadTimer = FALSE
    /\ swReq = 0
    /\ swShown = 0
    /\ swApplied = <<>>
    /\ nSwitch = 0
    /\ nListEvents = 0

\* after the mount effects: initialLoadTimeout is pending (l. 1341-1343)
SwInit ==
    /\ counterNumber = 1
    /\ currentCounterRef = 1
    /\ swLoading = FALSE
    /\ swCoolDown = FALSE
    /\ swLoadTimer = TRUE
    /\ swReq = 0
    /\ swShown = 0
    /\ swApplied = <<>>
    /\ nSwitch = 0
    /\ nListEvents = 0

\* loadQueue(counterId), l. 1242-1247: the request in flight after the call
\* (the throttled helper fetches at once, see loadQueue above)
loadQueueFor(loading, req, counterId) == IF loading THEN req ELSE counterId

\* onCounterChange(num), l. 1619-1622, and the effects of the render that
\* follows: the ref is updated (l. 1238-1240), the cleanup of the previous
\* subscription effect clears initialLoadTimeout and the new effect schedules
\* it again (l. 1331-1357).  The local queue is left as it is.
OnCounterChange(num) ==
    /\ nSwitch < MaxSwitch
    /\ num # counterNumber
    /\ counterNumber' = num
    /\ currentCounterRef' = num
    /\ swLoadTimer' = TRUE
    /\ nSwitch' = nSwitch + 1
    /\ UNCHANGED <<swLoading, swCoolDown, swReq, swShown, swApplied, nListEvents, nonSw>>

\* initialLoadTimeout fires: loadQueue()
SwLoadTimer ==
    /\ swLoadTimer
    /\ swLoadTimer' = FALSE
    /\ swReq' = loadQueueFor(swLoading, swReq, currentCounterRef)
    /\ swLoading' = TRUE
    /\ UNCHANGED <<counterNumber, currentCounterRef, swCoolDown, swShown, swApplied, nSwitch, nListEvents, nonSw>>

\* handleQueueListUpdate (l. 1310-1314): loadQueue()
SwQueueListUpdate ==
    /\ nListEvents < MaxListEvents
    /\ nListEvents' = nListEvents + 1
    /\ swReq' = loadQueueFor(swLoading, swReq, currentCounterRef)
    /\ swLoading' = TRUE
    /\ UNCHANGED <<counterNumber, currentCounterRef, swCoolDown, swLoadTimer, swShown, swApplied, nSwitch, nonSw>>

\* loadQueue after its await (l. 1249-1261): the list is applied if the
\* answer is a success, and the release of the guard is scheduled
SwAnswer(success) ==
    /\ swReq # 0
    /\ Len(swApplied) < MaxApplied
    /\ swReq' = 0
    /\ swShown' = IF success THEN swReq ELSE swShown
    /\ swApplied' = IF success THEN Append(swApplied, [fetched |-> swReq, active |-> counterNumber]) ELSE swApplied
    /\ swCoolDown' = TRUE
    /\ UNCHANGED <<counterNumber, currentCounterRef, swLoading, swLoadTimer, nSwitch, nListEvents, nonSw>>

\* the timer of l. 1258-1260 fires
SwCoolDownTimer ==
    /\ swCoolDown
    /\ swCoolDown' = FALSE
    /\ swLoading' = FALSE
    /\ UNCHANGED <<counterNumber, currentCounterRef, swLoadTimer, swReq, swShown, swApplied, nSwitch, nListEvents, nonSw>>

SwNext ==
    \/ \E num \in CounterIds : OnCounterChange(num)
    \/ SwLoadTimer
    \/ SwQueueListUpdate
    \/ \E success \in BOOLEAN : SwAnswer(success)
    \/ SwCoolDownTimer

(***************************************************************************)
(* Part 10: the Display's realtime subscriptions (Display.tsx l. 165-290): *)
(* the subscription effect, its re-runs when allCounters changes, its      *)
(* cleanup and the delayed fetch of the counters.  A binding is named by   *)
(* its channel (0: service-counters, c: service-counter.c), its event and  *)
(* the effect run whose closure it is; socketService.subscribe binds it    *)
(* and the closure it returns unbinds it (api.ts l. 438-474).              *)
(***************************************************************************)

MaxRuns == 3

\* the data of a /counters answer
CounterStatuses == {"Active", "Inactive"}

CounterLists ==
    {S \in SUBSET [id : CounterIds, status : CounterStatuses] :
        \A a \in S : \A b \in S : a.id = b.id => a = b}

Binding(chan, event, run) == [kind |-> "unbind", chan |-> chan, event |-> event, run |-> run]

TimerClosure(run) == [kind |-> "timer", chan |-> 0, event |-> "", run |-> run]

\* onQueueListUpdate, onServiceQueueUpdate(null), onAllCountersUpdate (l. 206-214, 254-281)
GlobalBindings(run) ==
    {Binding(0, e, run) : e \in {"QueueListUpdated", "ServiceQueueUpdated", "QueueUpdated"}}

\* subscribePerCounter(counters), l. 217-233
subscribePerCounter(counters, run) ==
    {Binding(c.id, "QueueListUpdated", run) : c \in {x \in counters : x.status = "Active"}}

\* the body of the subscription effect (l. 196-281), run number run, from
\* the bindings b and the collected closures s
DsEffect(run, counters, b, s) ==
    LET per == IF counters # {} THEN subscribePerCounter(counters, run) ELSE {}
        new == GlobalBindings(run) \cup per
    IN  [bound |-> b \cup new,
         subs |-> s \cup new \cup (IF counters = {} THEN {TimerClosure(run)} ELSE {}),
         timer |-> IF counters = {} THEN run ELSE 0]

\* the effect's cleanup (l. 284-289): every collected closure is called
DsCleanup(b, s) == b \ {k \in s : k.kind = "unbind"}

\* clearTimeout(timer) by the closure collected for it
DsTimerAfterCleanup(t, s) == IF t # 0 /\ TimerClosure(t) \in s THEN 0 ELSE t

\* useState([]), useRef([]); nothing bound
DsIdle ==
    /\ dsMounted = FALSE
    /\ allCounters = {}
    /\ dsBound = {}
    /\ dsSubs = {}
    /\ dsTimer = 0
    /\ dsTimerFetch = 0
    /\ dsInitFetch = FALSE
    /\ dsRun = 0

\* after the mount effects: the initial load awaits fetchCounters (l. 165-170)
\* and the subscription effect has run with allCounters = []
DsInit ==
    /\ dsMounted = TRUE
    /\ allCounters = {}
    /\ dsBound = DsEffect(1, {}, {}, {}).bound
    /\ dsSubs = DsEffect(1, {}, {}, {}).subs
    /\ dsTimer = 1
    /\ dsTimerFetch = 0
    /\ dsInitFetch = TRUE
    /\ dsRun = 1

\* setAllCounters(data) on the mounted Display and the render that follows:
\* cleanup of the previous run, then the effect again (dependency allCounters)
DsRender(data, b, s) ==
    LET e == DsEffect(dsRun + 1, data, DsCleanup(b, s), {})
    IN  /\ dsRun < MaxRuns
        /\ allCounters' = data
        /\ dsBound' = e.bound
        /\ dsSubs' = e.subs
        /\ dsTimer' = e.timer
        /\ dsRun' = dsRun + 1

\* the initial load after await CounterService.fetchCounters() (l. 169-172)
DsInitialAnswer(data, success) ==
    /\ dsInitFetch
    /\ dsInitFetch' = FALSE
    /\ IF success /\ dsMounted
       THEN DsRender(data, dsBound, dsSubs)
       ELSE UNCHANGED <<allCounters, dsBound, dsSubs, dsTimer, dsRun>>
    /\ UNCHANGED <<dsMounted, dsTimerFetch, nonDs>>

\* the 1 s timer fires (l. 239-241): its callback calls fetchCounters and awaits
DsTimerFires ==
    /\ dsTimer # 0
    /\ dsTimerFetch = 0
    /\ dsTimerFetch' = dsTimer
    /\ dsTimer' = 0
    /\ UNCHANGED <<dsMounted, allCounters, dsBound, dsSubs, dsInitFetch, dsRun, nonDs>>

\* the timer's callback after its await (l. 242-248): setAllCounters and
\* subscribePerCounter(countersRes.data), whose closures go to subs.current
DsTimerAnswer(data, success) ==
    /\ dsTimerFetch # 0
    /\ dsTimerFetch' = 0
    /\ LET per == IF success THEN subscribePerCounter(data, dsTimerFetch) ELSE {}
       IN  IF success /\ dsMounted
           THEN DsRender(data, dsBound \cup per, dsSubs \cup per)
           ELSE /\ dsBound' = dsBound \cup per
                /\ dsSubs' = dsSubs \cup per
                /\ UNCHANGED <<allCounters, dsTimer, dsRun>>
    /\ UNCHANGED <<dsMounted, dsInitFetch, nonDs>>

\* the Display unmounts: the cleanup of the subscription effect runs
DsUnmount ==
    /\ dsMounted
    /\ dsMounted' = FALSE
    /\ dsBound' = DsCleanup(dsBound, dsSubs)
    /\ dsTimer' = DsTimerAfterCleanup(dsTimer, dsSubs)
    /\ dsSubs' = {}
    /\ UNCHANGED <<allCounters, dsTimerFetch, dsInitFetch, dsRun, nonDs>>

DsNext ==
    \/ \E data \in CounterLists : \E success \in BOOLEAN : DsInitialAnswer(data, success)
    \/ DsTimerFires
    \/ \E data \in CounterLists : \E success \in BOOLEAN : DsTimerAnswer(data, success)
    \/ DsUnmount

(***************************************************************************)
(* Part 11: the login modal (LoginModal.tsx l. 21-40) over login() and     *)
(* setAuthToken of services/api.ts.  The Gateway's answer is a JSON body;  *)
(* the fields read by login() (success, token) and by the modal            *)
(* (isSuccess, access_token) are each present or absent.                   *)
(***************************************************************************)

MaxAttempts == 2

\* the state outside the session store's header and token and the modal
nonLogin == <<wsVars, rbVars, thrVars, ctlVars, pvVars, dispVars, spVars, swVars, dsVars, sessReqs, sessLast, nSess>>

\* the bodies of the Gateway's answers to POST /login
LoginBodies ==
    [success : BOOLEAN, token : {NoToken, "t1"}, isSuccess : BOOLEAN, access_token : {NoToken, "t2"}]

\* the object login() returns when the request fails (api.ts l. 497-499)
LoginFailed == [success |-> FALSE, token |-> NoToken, isSuccess |-> FALSE, access_token |-> NoToken]

\* the branch login() takes on a body (api.ts l. 494)
LoginOutcome(body) ==
    IF body.success /\ body.token # NoToken THEN "ok"
    ELSE IF body.success THEN "okNoToken" ELSE "reject"

\* the modal's test of what login() returned (LoginModal.tsx l. 27)
ModalAccepts(res) == res.isSuccess /\ res.access_token # NoToken

\* useState("") / useState(false); the modal is closed
LmIdle ==
    /\ lmLoading = FALSE
    /\ lmError = FALSE
    /\ lmOpen = FALSE
    /\ lmRoute = "public"
    /\ lmLog = <<>>

\* the modal has been opened on the public view
LmInit ==
    /\ lmLoading = FALSE
    /\ lmError = FALSE
    /\ lmOpen = TRUE
    /\ lmRoute = "public"
    /\ lmLog = <<>>

\* handleSubmit up to its await (l. 21-26); the submit button is disabled
\* while loading
LmSubmit ==
    /\ lmOpen
    /\ ~lmLoading
    /\ Len(lmLog) < MaxAttempts
    /\ lmLoading' = TRUE
    /\ lmError' = FALSE
    /\ UNCHANGED <<lmOpen, lmRoute, lmLog, authHeader, storedToken, nonLogin>>

\* handleSubmit after login() returned res (l. 27-38): login() itself has
\* run setAuthToken on its own test of the body
LmReturn(body, failed) ==
    /\ lmLoading
    /\ LET res == IF failed THEN LoginFailed ELSE body
           st1 == login(SessState, IF failed THEN "fail" ELSE LoginOutcome(body), body.token)
           st2 == IF ModalAccepts(res) THEN setAuthToken(st1, res.access_token) ELSE st1
       IN  /\ SessCommit(st2)
           /\ lmOpen' = ~ModalAccepts(res)
           /\ lmRoute' = IF ModalAccepts(res) THEN "admin" ELSE lmRoute
           /\ lmError' = ~ModalAccepts(res)
           /\ lmLog' = Append(lmLog, [res |-> res,
                                      stored |-> (~failed /\ LoginOutcome(body) = "ok") \/ ModalAccepts(res),
                                      token |-> st2.stored,
                                      reported |-> ModalAccepts(res)])
    /\ lmLoading' = FALSE
    /\ UNCHANGED nonLogin

LmNext ==
    \/ LmSubmit
    \/ \E body \in LoginBodies : \E failed \in BOOLEAN : LmReturn(body, failed)

(***************************************************************************)
(* The specifications                                                      *)
(***************************************************************************)

InitWS == WsInit /\ RbIdle /\ ThrIdle /\ CtlIdle /\ PvIdle /\ SessIdle /\ DispIdle /\ SpIdle /\ SwIdle /\ DsIdle /\ LmIdle

SpecWS == InitWS /\ [][WsNext]_vars

InitRebuild == RbInit /\ WsIdle /\ ThrIdle /\ CtlIdle /\ PvIdle /\ SessIdle /\ DispIdle /\ SpIdle /\ SwIdle /\ DsIdle /\ LmIdle

SpecRebuild == InitRebuild /\ [][RbNext]_vars

InitThrottle == ThrInit /\ WsIdle /\ RbIdle /\ CtlIdle /\ PvIdle /\ SessIdle /\ DispIdle /\ SpIdle /\ SwIdle /\ DsIdle /\ LmIdle

SpecThrottle == InitThrottle /\ [][ThrNext]_vars

InitCtl == CtlInit /\ WsIdle /\ RbIdle /\ ThrIdle /\ PvIdle /\ SessIdle /\ DispIdle /\ SpIdle /\ SwIdle /\ DsIdle /\ LmIdle

SpecCtl == InitCtl /\ [][CtlNext]_vars

InitPreview == PvInit /\ WsIdle /\ RbIdle /\ ThrIdle /\ CtlIdle /\ SessIdle /\ DispIdle /\ SpIdle /\ SwIdle /\ DsIdle /\ LmIdle

SpecPreview == InitPreview /\ [][PvNext]_vars

InitSession == PvIdle /\ WsIdle /\ RbIdle /\ ThrIdle /\ CtlIdle /\ SessInit /\ DispIdle /\ SpIdle /\ SwIdle /\ DsIdle /\ LmIdle

SpecSession == InitSession /\ [][SessNext]_vars

InitDisplay == DispInit /\ WsIdle /\ ThrIdle /\ CtlIdle /\ PvIdle /\ SessIdle /\ SpIdle /\ SwIdle /\ DsIdle /\ LmIdle

SpecDisplay == InitDisplay /\ [][DispNext]_vars

InitSpeech == SpInit /\ WsIdle /\ RbIdle /\ ThrIdle /\ CtlIdle /\ PvIdle /\ SessIdle /\ DispIdle /\ SwIdle /\ DsIdle /\ LmIdle

SpecSpeech == InitSpeech /\ [][SpNext]_vars

InitSwitch == SwInit /\ WsIdle /\ RbIdle /\ ThrIdle /\ CtlIdle /\ PvIdle /\ SessIdle /\ DispIdle /\ SpIdle /\ DsIdle /\ LmIdle

SpecSwitch == InitSwitch /\ [][SwNext]_vars

InitDispSubs == DsInit /\ WsIdle /\ RbIdle /\ ThrIdle /\ CtlIdle /\ PvIdle /\ SessIdle /\ DispIdle /\ SpIdle /\ SwIdle /\ LmIdle

SpecDispSubs == InitDispSubs /\ [][DsNext]_vars

InitLogin == LmInit /\ WsIdle /\ RbIdle /\ ThrIdle /\ CtlIdle /\ PvIdle /\ SessIdle /\ DispIdle /\ SpIdle /\ SwIdle /\ DsIdle

SpecLogin == InitLogin /\ [][LmNext]_vars

(***************************************************************************)
(* Claims about the throttled HTTP helpers                                 *)
(***************************************************************************)

\* the calls that fetched at once: each opens a cool-down window
ThrLeading == {i \in 1..Len(thrCalls) : \E k \in 1..Len(thrFetches) : thrFetches[k].call = i /\ thrFetches[k].time = thrCalls[i].time}

\* the calls arriving within the window opened by call i
ThrWindow(i) == {j \in 1..Len(thrCalls) : j >= i /\ thrCalls[j].time < thrCalls[i].time + Wait(thrFn)}

\* the window opened by call i is over and the timer due at its end has run
ThrClosed(i) ==
    /\ now >= thrCalls[i].time + Wait(thrFn)
    /\ thr.timerId # NoTime => now < thr.timerId

\* the fetches made with the arguments of one of the calls in S
ThrFetchesOf(S) == {k \in 1..Len(thrFetches) : thrFetches[k].call \in S}

\* the last call of the window opened by call i
ThrLast(i) == CHOOSE j \in ThrWindow(i) : \A l \in ThrWindow(i) : l <= j

\* a call arrived at the very end of the window opened by call i, before the
\* timer ran, and fetched at once in place of the timer
ThrSuperseded(i) == \E j \in ThrLeading : j \notin ThrWindow(i) /\ thrCalls[j].time = thrCalls[i].time + Wait(thrFn) /\ j = ThrLast(i) + 1

\* C9 (as stated): N >= 1 calls of listQueue (window 1 s) or fetchCounters
\* (window 2 s) arriving within one cool-down window produce exactly 1 HTTP
\* fetch.
C9_OneFetchPerWindow ==
    \A i \in ThrLeading : ThrClosed(i) => Cardinality(ThrFetchesOf(ThrWindow(i))) = 1

\* C9 (amended): the first call of a window fetches at once.  A single call
\* produces exactly that 1 fetch; N >= 2 calls produce exactly 2 fetches, the
\* second one issued when the window ends, with the arguments of the last
\* call, unless a further call arriving at that very instant fetches in its
\* place.
C9_LeadingAndTrailingFetch ==
    \A i \in ThrLeading :
        /\ \A k \in ThrFetchesOf(ThrWindow(i)) :
              \/ thrFetches[k].call = i /\ thrFetches[k].time = thrCalls[i].time
              \/ thrFetches[k].call = ThrLast(i) /\ thrFetches[k].time = thrCalls[i].time + Wait(thrFn)
        /\ ThrClosed(i) =>
              IF Cardinality(ThrWindow(i)) = 1
              THEN Cardinality(ThrFetchesOf(ThrWindow(i))) = 1
              ELSE \/ Cardinality(ThrFetchesOf(ThrWindow(i))) = 2
                   \/ Cardinality(ThrFetchesOf(ThrWindow(i))) = 1 /\ ThrSuperseded(i)

\* three calls of fetchCounters within its window, the window over
C9_Witness ==
    /\ thrFn = "fetchCounters"
    /\ 1 \in ThrLeading
    /\ Cardinality(ThrWindow(1)) = 3
    /\ ThrClosed(1)
    /\ Cardinality(ThrFetchesOf(ThrWindow(1))) = 2

(***************************************************************************)
(* Claims about the controller                                             *)
(***************************************************************************)

\* the view model the dashboard renders
CtlView(st) == <<st.queue, st.currentServing, st.totalServedToday>>

\* the single-entry patches
Patches == [id : EntryIds, status : Statuses, name : Names]

\* the currentServing a closure running updateQueueState may have captured:
\* null (the subscription's closure) or the current one (a handler's)
Captured == {NULL, currentServing}

\* C6: patch idempotence: in every local state, applying updateQueueState(p)
\* twice yields the same queue, currentServing and totalServedToday as
\* applying it once.
C6_PatchIdempotence ==
    \A p \in Patches : \A cs \in Captured :
        CtlView(updateQueueState(updateQueueState(CtlState, cs, p), cs, p)) = CtlView(updateQueueState(CtlState, cs, p))

\* C7: stale-patch guard, no mutation: a patch whose id is not in the local
\* queue leaves queue, currentServing and totalServedToday as they are,
\* whatever its status.
C7_StalePatchNoMutation ==
    \A p \in Patches : \A cs \in Captured :
        p.id \notin CtlIds(queue) => CtlView(updateQueueState(CtlState, cs, p)) = CtlView(CtlState)

\* C8: stale-patch guard, re-fetch: whenever updateQueueState has received a
\* patch whose id is not in the local queue, it has issued a list-queue
\* request for the active counter, also when a load was in flight or in its
\* cool-down.
C8_StalePatchRefetch == stale # "dropped"

\* the local queue shows x as waiting or serving
CtlShowsOpen(x) == \E i \in 1..Len(queue) : queue[i].id = x /\ queue[i].status \in {"waiting", "serving"}

SkipsOf(x) == {i \in DOMAIN invoked : invoked[i].op = "skip" /\ invoked[i].known /\ invoked[i].id = x}

SkipCompletes(x) == {i \in DOMAIN sent : sent[i].owner = "handleSkip" /\ sent[i].kind = "complete" /\ sent[i].id = x}

SkipAdds(x) == {i \in DOMAIN sent : sent[i].owner = "handleSkipAdd" /\ sent[i].kind = "add" /\ sent[i].id = x}

SkipPending(x) == {k \in DOMAIN reqs : reqs[k].owner = "handleSkip" /\ reqs[k].id = x}

SkipSentNothing ==
    (\A i \in DOMAIN invoked : invoked[i].op = "skip" /\ ~invoked[i].known) => sent = <<>>

CallNextPending == \E k \in DOMAIN reqs : reqs[k].owner = "handleCallNext"

\* C12: once the call-next requests have been answered, every Call Next
\* announcement spoken names the active counter and an entry the Gateway
\* returned for a call-next request; no other entry has been announced.
C12_AnnouncesReturnedEntry ==
    ~CallNextPending =>
        \A i \in DOMAIN spoken :
            spoken[i].kind = "call" =>
                /\ spoken[i].counter = ActiveCounter
                /\ \E j \in DOMAIN called : called[j].id = spoken[i].id /\ called[j].name = spoken[i].name

\* the add-person requests the Add Person dialog caused, in the order sent;
\* the k-th of them belongs to the k-th ticket, which keeps the dialog's
\* trimmed name and the state of its priority checkbox
IsDialogAdd(r) == r.owner = "handleAddPerson"

DialogAdds == SelectSeq(sent, IsDialogAdd)

\* C13: the add-person request sent for the Add Person dialog carries the
\* trimmed name and an is_priority flag equal to the dialog's checkbox.
C13_AddCarriesNameAndPriority ==
    /\ Len(DialogAdds) = Len(printed)
    /\ \A k \in DOMAIN DialogAdds :
          /\ DialogAdds[k].kind = "add"
          /\ DialogAdds[k].name = printed[k].name
          /\ DialogAdds[k].priority = printed[k].isPriority

\* C14: a ticket is printed only after the Gateway has answered the
\* add-person request with success: there are never more tickets printed
\* than add-person requests of the dialog answered with success.
C14_PrintAfterAddSucceeded ==
    Len(printed) <= Cardinality({i \in DOMAIN answered : answered[i].owner = "handleAddPerson" /\ answered[i].success})

\* C16: every failed or rejected request of a controller action has produced
\* an alert, and no handler has sent more than its own requests (at most two:
\* complete and call-next, or complete and add-person).
C16_FailureAlertNoRetry ==
    /\ alerts = Cardinality({i \in DOMAIN answered : ~answered[i].success})
    /\ Len(sent) <= 2 * Len(invoked)

\* nothing is outstanding in the controller: no request awaits its answer,
\* no timer is scheduled, no realtime event is on its way
CtlQuiescent ==
    /\ reqs = <<>>
    /\ events = <<>>
    /\ reloadTimers = 0
    /\ ~coolDown

GwServing(g) == {i \in 1..Len(g) : g[i].status = "serving"}

\* C21: self-healing convergence: once every outstanding request and timer of
\* the controller has completed and no event is pending, the local queue and
\* currentServing equal the Gateway's entries of the active counter (no other
\* client has changed the Gateway).
C21_SelfHealing ==
    (CtlQuiescent /\ nOther = 0) =>
        /\ queue = GwList(gw)
        /\ currentServing = IF GwServing(gw) = {} THEN NULL
                            ELSE GwList(gw)[CHOOSE i \in GwServing(gw) : \A j \in GwServing(gw) : i <= j]

\* Call Next clicked while an entry was serving: the complete request for it
\* and the call-next request were sent one after the other
CallNextPairs == {i \in 1..(Len(sent) - 1) : sent[i].kind = "complete" /\ sent[i].owner = "handleComplete" /\ sent[i + 1].kind = "callNext"}

\* C22: Call Next ordering: the Gateway never processes the call-next request
\* of a Call Next while the complete request that the same Call Next sent for
\* the serving entry is still unprocessed.
C22_CompleteBeforeCallNext ==
    \A i \in CallNextPairs :
        ~ /\ \E k \in DOMAIN reqs : reqs[k].kind = "complete" /\ reqs[k].id = sent[i].id /\ reqs[k].stage = "sent"
          /\ ~\E k \in DOMAIN reqs : reqs[k].kind = "callNext" /\ reqs[k].stage = "sent"

\* C23: patch-one-entry on a known entry: in every local state, a patch with
\* status serving makes the patched entry currentServing, and a patch with
\* status completed for the entry that is currentServing makes currentServing
\* null, whether updateQueueState is run by an action handler or by
\* handleServiceQueueUpdate.
C23_PatchKnownEntry ==
    \A p \in Patches : \A cs \in Captured :
        p.id \in CtlIds(queue) =>
            /\ p.status = "serving" => updateQueueState(CtlState, cs, p).currentServing = p
            /\ (p.status = "completed" /\ currentServing # NULL /\ currentServing.id = p.id) =>
                  updateQueueState(CtlState, cs, p).currentServing = NULL

ListsInFlight == {k \in DOMAIN reqs : reqs[k].kind = "list"}

\* C24: in-flight guard: at most one loadQueue fetch is in flight; from the
\* start of a fetch until its cool-down timer has fired the guard is set, so
\* no fetch is in flight during the cool-down; and whenever the guard is set
\* a fetch is in flight or the cool-down timer is scheduled, so the guard is
\* released after every load.
C24_InFlightGuard ==
    /\ Cardinality(ListsInFlight) <= 1
    /\ ListsInFlight # {} => isQueueLoading /\ ~coolDown
    /\ coolDown => isQueueLoading /\ ListsInFlight = {}
    /\ isQueueLoading => ListsInFlight # {} \/ coolDown

\* a load has completed and, in its cool-down, a loadQueue call asked for by a
\* patch with an unknown id was dropped
C24_Witness ==
    /\ coolDown
    /\ stale = "dropped"
    /\ ListsInFlight = {}

\* C28: served-count invariant: totalServedToday equals the number of
\* entries with status completed in the local queue.
C28_ServedCount ==
    totalServedToday = Cardinality({i \in 1..Len(queue) : queue[i].status = "completed"})

(***************************************************************************)
(* Claims about the realtime channel client                                *)
(***************************************************************************)

\* C1: channel sharing. Every subscription made on a channel whose own
\* (event, callback) pair was not unsubscribed is still bound on its channel
\* object, and that channel is still subscribed at its Pusher instance, whatever
\* other unsubscribe closures were called in between; an event delivered
\* invokes exactly the callbacks bound to it.
C1_ChannelSharing ==
    /\ \A k \in live : <<k.e, k.cb>> \in bound[k.p][k.c] /\ k.c \in psubs[k.p]
    /\ \A k \in unsubbed : k.c \in psubs[k.p]
    /\ wsLast = "deliver" =>
          \E p \in PusherIds, c \in ChannelNames, e \in EventNames :
              c \in psubs[p] /\
              wsInvoked = {k.cb : k \in {l \in live : l.p = p /\ l.c = c /\ l.e = e}}

\* C1 witness: two subscriptions on one channel that differ in event or
\* callback, the first unsubscribed, and an event delivered on the channel
\* has invoked the callback of the second.
C1_Witness ==
    \E k1 \in unsubbed, k2 \in live :
        /\ k1.p = k2.p /\ k1.c = k2.c /\ k1 # k2
        /\ wsLast = "deliver"
        /\ k2.cb \in wsInvoked

\* C2: one shared connection. The client holds at most one Pusher instance
\* that it constructed and has not torn down.
C2_OneSharedConnection == Cardinality(OpenPushers) <= 1

\* C3: disconnect() leaves the client Disconnected. Right after disconnect()
\* the channel registry is empty, no instance is stored and every Pusher
\* instance the client constructed is torn down.
C3_DisconnectTearsDownAll ==
    wsLast = "disconnect" =>
        /\ pusher = 0
        /\ \A c \in ChannelNames : channels[c] = 0
        /\ OpenPushers = {}

(***************************************************************************)
(* Claims about the preview number                                         *)
(***************************************************************************)

PvWaiting == {i \in DOMAIN pvQueue : pvQueue[i].status = "waiting"}

\* the number of a queue number: what parses after removing 'P', else 0
PvNumber(n) == IF parseInt(replace(n, "P")).nan THEN 0 ELSE parseInt(replace(n, "P")).val

PvLargest ==
    CHOOSE m \in {PvNumber(pvQueue[i].queueNumber) : i \in PvWaiting} :
        \A i \in PvWaiting : m >= PvNumber(pvQueue[i].queueNumber)

\* C15: getNextQueueNumber returns "P1" when the queue has no waiting entry,
\* and otherwise "P" followed by the decimal numeral of 1 plus the largest
\* number among the waiting entries' queue numbers; the serving and completed
\* entries of the queue do not influence the result.
C15_PreviewNumber ==
    /\ PvWaiting = {} => pvOut = <<"P", "1">>
    /\ PvWaiting # {} =>
          /\ Head(pvOut) = "P"
          /\ \A i \in 2..Len(pvOut) : IsDigit(pvOut[i])
          /\ Len(pvOut) >= 2
          /\ pvOut[2] # "0"
          /\ DecValue(Tail(pvOut)) = 1 + PvLargest
    /\ pvOut = getNextQueueNumber(SelectSeq(pvQueue, IsWaiting))

\* a waiting entry numbered P9 next to a serving entry with a larger number:
\* the preview is P10
C15_Witness ==
    /\ \E i \in PvWaiting : pvQueue[i].queueNumber = <<"P", "9">>
    /\ \E i \in DOMAIN pvQueue : pvQueue[i].status = "serving" /\ pvQueue[i].queueNumber = <<"9", "9">>
    /\ pvOut = <<"P", "1", "0">>

(***************************************************************************)
(* Claims about the session store                                          *)
(***************************************************************************)

\* C17: after logout() has returned, whether the logout request succeeded, was
\* rejected or failed in transport, no credential is persisted in storage
\* and no Authorization header default remains.
C17_LogoutClears ==
    sessLast.op = "logout" => storedToken = NoToken /\ authHeader = NoHeader

\* logout has returned after a transport failure; a credential was held
\* until then
C17_Witness ==
    /\ sessLast.op = "logout"
    /\ sessLast.out = "fail"
    /\ sessLast.before \in Tokens
    /\ storedToken = NoToken

\* C18: the Authorization header default is present exactly when a
\* credential is persisted in storage, both carry the same token, and
\* setAuthToken applied twice with the same argument (a token or null) has
\* the same effect as applied once.
C18_SessionConsistent ==
    /\ authHeader # NoHeader <=> storedToken # NoToken
    /\ authHeader # NoHeader => authHeader = Bearer(storedToken)
    /\ \A token \in Tokens \cup {NoToken} :
          /\ setAuthToken(setAuthToken(SessState, token), token) = setAuthToken(SessState, token)
          /\ setAuthToken(SessState, token).header = IF token = NoToken THEN NoHeader ELSE Bearer(token)
          /\ setAuthToken(SessState, token).stored = token

\* a credential was held and setAuthToken(null) has cleared it
C18_Witness ==
    /\ sessLast.op = "setAuthToken"
    /\ sessLast.token = NoToken
    /\ sessLast.before \in Tokens
    /\ storedToken = NoToken
    /\ authHeader = NoHeader

(***************************************************************************)
(* Claims about the Display over sequences, and about its derived lists    *)
(***************************************************************************)

\* the ids of counter c's entries with status st in the latest list given for c
LatestIdx(c, st) ==
    {i \in 1..Len(latest[c].list) : latest[c].list[i].service_counter_id = c /\ latest[c].list[i].status = st}

DispCurrent(c) == IF counterData[c] = NULL THEN NULL ELSE counterData[c].currentServing

\* C19: after any sequence of bulk rebuilds, list replacements and
\* counter-stat merges, for every counter: a currentServing with isNext is
\* the same entry as waitingQueue[0], a waiting entry of the counter's latest
\* list, and that list has no serving entry; a currentServing without isNext
\* is a serving entry of that list; currentServing is null only when that
\* list has neither a serving nor a waiting entry of the counter.
C19_ViewModelInvariant ==
    \A c \in CounterIds :
        LET cur == DispCurrent(c)
        IN  /\ (cur # NULL /\ cur.isNext) =>
                  /\ LatestIdx(c, "serving") = {}
                  /\ Len(counterData[c].waitingQueue) > 0
                  /\ cur = [counterData[c].waitingQueue[1] EXCEPT !.isNext = TRUE]
                  /\ cur.id \in LatestIdx(c, "waiting")
            /\ (cur # NULL /\ ~cur.isNext) => cur.id \in LatestIdx(c, "serving")
            /\ cur = NULL => LatestIdx(c, "serving") = {} /\ LatestIdx(c, "waiting") = {}

\* counter c showed a serving entry from a bulk load, a later list for c held
\* waiting entries only and promoted one, and a counter-stat event was merged
C19_Witness ==
    \E c \in CounterIds :
        /\ DispCurrent(c) # NULL
        /\ DispCurrent(c).isNext
        /\ Len(latest[c].list) = 2
        /\ counterData[c].counterInfo # NULL
        /\ counterData[c].counterInfo.counter_name = "Cashier"
        /\ counterData[c].counterInfo.queue_waiting = 0
        /\ \E d \in CounterIds \ {c} :
              /\ DispCurrent(d) # NULL
              /\ ~DispCurrent(d).isNext
              /\ latest[d].list # latest[c].list

\* the entry at position k of counter c's waitingQueue is missing from allWaiting
DispOmitted(c, k) ==
    ~\E r \in 1..Len(allWaiting) :
        /\ allWaiting[r].counterNumber = c
        /\ allWaiting[r].id = counterData[c].waitingQueue[k].id

DispPromoted(c, k) ==
    /\ DispCurrent(c) # NULL
    /\ DispCurrent(c).isNext
    /\ DispCurrent(c).id = counterData[c].waitingQueue[k].id

\* C20: allWaitingCustomers holds every entry of every counter's
\* waitingQueue except the entries that are their own counter's promoted-next
\* entry: an entry of a waitingQueue is omitted if and only if it is that
\* counter's currentServing with isNext.
C20_AllWaitingOmitsPromoted ==
    \A c \in CounterIds : counterData[c] # NULL =>
        \A k \in 1..Len(counterData[c].waitingQueue) : DispOmitted(c, k) <=> DispPromoted(c, k)

(***************************************************************************)
(* Claims about QueueService.listQueue                                     *)
(***************************************************************************)

\* C26: every call QueueService.listQueue(c) is answered from a fetch made for
\* the counter c it asked for (null: the fetch of all counters), whatever the
\* sequence of calls and their times.
C26_ListQueueAnswersCounter ==
    thrFn = "listQueue" =>
        \A i \in DOMAIN thrCalls :
            /\ thrCalls[i].got \in DOMAIN thrFetches
            /\ thrFetches[thrCalls[i].got].arg = thrCalls[i].arg

(***************************************************************************)
(* Claims about the controller's active counter                            *)
(***************************************************************************)

SwQuiescent == swReq = 0 /\ ~swLoadTimer /\ ~swCoolDown

\* C27: every list applied to the local queue was fetched for the counter
\* active when it was applied, and once the loads a counter change scheduled
\* have completed, the list shown is one fetched for the active counter.
C27_ActiveCounterConsistency ==
    /\ \A i \in DOMAIN swApplied : swApplied[i].fetched = swApplied[i].active
    /\ (SwQuiescent /\ nSwitch > 0) => swShown = counterNumber

(***************************************************************************)
(* Claims about the Display's subscriptions                                *)
(***************************************************************************)

\* C29: once the cleanup of the Display's subscription effect has run on
\* unmount, none of the Display's callbacks is bound to any channel, also
\* when the cleanup ran while the delayed counters fetch was in flight.
C29_NoSubscriptionOutlivesDisplay == ~dsMounted => dsBound = {}

(***************************************************************************)
(* Claims about the login modal                                            *)
(***************************************************************************)

\* C30: for every login attempt through the modal and every answer, the
\* modal reports success (onLogin, close, navigate to the admin view) exactly
\* when that attempt stored a bearer credential; an attempt shown as failed
\* has stored none.
C30_LoginOutcomeAgrees ==
    /\ \A i \in DOMAIN lmLog : lmLog[i].reported <=> lmLog[i].stored
    /\ lmRoute = "admin" => storedToken # NoToken

(***************************************************************************)
(* Claims about the speech announcement                                    *)
(***************************************************************************)

\* C25: a speak() call made while an announcement is being spoken starts no
\* utterance and is not queued, so the engine never holds two utterances;
\* the busy flag is set exactly while an utterance is with the engine (it is
\* cleared on completion, on error and when the hand-over throws), and a
\* call is spoken exactly when the flag is clear at the call (and the
\* platform has a speech engine and the hand-over does not throw).
C25_SpeechBusyFlag ==
    /\ Len(spEngine) <= 1
    /\ spBusy <=> spEngine # <<>>
    /\ \A i \in DOMAIN spCalls :
           spCalls[i].spoken <=> (spSynth /\ ~spCalls[i].busy /\ ~spCalls[i].throws)

\* a call dropped while speaking, and a later call spoken after the flag was cleared
C25_Witness ==
    /\ Len(spCalls) = 3
    /\ spCalls[1].spoken
    /\ spCalls[2].busy /\ ~spCalls[2].spoken
    /\ spCalls[3].spoken /\ spCalls[3].text = spCalls[2].text
    /\ spEngine = <<spCalls[3].text>>

====
